---- MODULE Spec2Model ----
(***************************************************************************)
(* Transfer engine of s3cli.py: single-shot, multipart and parallel        *)
(* uploads, single-shot, ranged and parallel downloads, against a remote   *)
(* object store.  One behaviour is an upload command followed by a         *)
(* download command (either may be skipped); every network call returns    *)
(* status 200/206, a non-2xx status, or raises a transport error.          *)
(*                                                                         *)
(* Request signing of s3cli.py: sign_request_v4 and make_s3_request over    *)
(* character strings, under the specification SignSpec: a process signs     *)
(* requests directly and issues the calls the commands make, while its      *)
(* clock advances.                                                          *)
(***************************************************************************)
EXTENDS Integers, Sequences, FiniteSets, TLC

\* ---------------------------------------------------------------- bounds
MaxFileSize == 3
MaxChunkSize == 2
MaxWorkers == 2
MaxClock == 1

VARIABLES
  srcFile,      \* content of the local source file (a sequence of bytes), or NotAFile
  object,       \* remote object: [exists, data]
  destFile,     \* local destination file: [exists, data]
  upPath,       \* which upload path produced the remote object ("none" if absent)
  cmd,          \* function of the running command
  pc,           \* position of the orchestrator thread
  result,       \* "running" | "success" | "failed" | "crashed"
  chunk_size,
  max_workers,
  force_chunked,  \* force_multipart (upload) / force_chunked (download)
  force_single,
  file_size,
  chunk_count,
  upload_id,
  part_info,    \* accumulated list of [PartNumber, ETag]
  part_number,  \* sequential upload: number of the next part
  pos,          \* sequential upload: read offset of the open source file
  start_byte,   \* sequential download: first byte of the next range
  taskSt,       \* parallel: state of each submitted future
  taskVal,      \* parallel: value a finished future returns
  collected,    \* parallel: futures as_completed has yielded, in that order
  stored,       \* remote multipart session: part number -> data
  requests,     \* the HTTP requests issued by the current command, in order
  clock,        \* seconds the process clock has advanced
  profile,      \* the loaded profile, a dict
  outcome,      \* of make_s3_request if the latest step called it: "sent" | "KeyError"
  sent,         \* the request the latest step handed to the HTTP library
  signArgs,     \* arguments of the latest call of sign_request_v4
  signOut,      \* what that call returned or raised
  signedAt,     \* the clock at that call
  signAgain,    \* what a later call with the same arguments returned or raised
  againAt,      \* the clock at the later call
  store,        \* the service's objects: (bucket, key) -> content or Absent
  moveArgs,     \* arguments of move_file
  searchArgs,   \* arguments of search_files_paginated
  searchParams, \* search: the params dict, kept across the pages
  continuation_token,  \* search: token taken from the latest page
  matches,      \* search: keys collected so far
  displayed     \* search: the result list printed at the end, if any

xferVars == <<srcFile, object, destFile, upPath, cmd, pc, result, chunk_size,
              max_workers, force_chunked, force_single, file_size, chunk_count,
              upload_id, part_info, part_number, pos, start_byte, taskSt,
              taskVal, collected, stored, requests>>

sigVars == <<clock, profile, outcome, sent, signArgs, signOut, signedAt, signAgain,
             againAt>>

objVars == <<store, moveArgs, searchArgs, searchParams, continuation_token, matches, displayed>>

vars == <<xferVars, sigVars, objVars>>

runVars == <<chunk_size, max_workers, force_chunked, force_single, file_size,
             chunk_count>>
seqVars == <<part_number, pos, start_byte>>
parVars == <<taskSt, taskVal, collected>>

\* ---------------------------------------------------------------- helpers
Min(a, b) == IF a < b THEN a ELSE b

SetMin(S) == CHOOSE x \in S : \A y \in S : x <= y

\* The transfer code never inspects a byte of the data it moves (it only tests
\* whether a read returned anything), so a file is represented by its size and
\* every byte carries its own 1-based offset as value: any byte that is lost,
\* duplicated or misplaced changes the content.  0 is the filler of truncate().
FileOfSize(n) == [i \in 1..n |-> i]

Files == {FileOfSize(n) : n \in 0..MaxFileSize}

\* what a local path holds when it names no file: -1 is no byte of a file
NotAFile == <<-1>>

\* the local source path names a file of up to MaxFileSize bytes, or none
SourcePaths == Files \cup {NotAFile}

\* a check left out
IsFile_Unchecked(f) == TRUE

\* os.path.isfile(file_path)
IsFile(f) == f # NotAFile

NoFile == [exists |-> FALSE, data |-> <<>>]
FileOf(d) == [exists |-> TRUE, data |-> d]

\* a file left at the destination path by an earlier run: -2 is no byte of the
\* object and not the filler
OldFile == FileOf(<<-2, -2>>)

\* the local destination path names no file yet, or an old one
DestPaths == {NoFile, OldFile}

\* a destination file that is created but not sized
Zeros_Empty(n) == <<>>

\* f.truncate(file_size) on a new file: file_size filler bytes
Zeros(n) == [i \in 1..n |-> 0]

\* a count forced to at least one chunk
ChunkCount_AtLeastOne(size, c) == IF size = 0 THEN 1 ELSE (size + c - 1) \div c

\* chunk_count = (file_size + chunk_size - 1) // chunk_size
ChunkCount(size, c) == (size + c - 1) \div c

\* f.seek(start); f.read(n)
FileRead(f, start, n) == SubSeq(f, start + 1, Min(start + n, Len(f)))

\* part numbers taken as zero-based
PartStart_ZeroBased(p, c) == p * c

\* start_pos = (part_number - 1) * chunk_size
PartStart(p, c) == (p - 1) * c

\* start_byte = chunk_index * chunk_size
ChunkStart(i, c) == i * c

\* an end one byte too far
EndByte_OffByOne(start, c, size) == Min(start + c, size - 1)

\* end_byte = min(start_byte + chunk_size - 1, file_size - 1)
EndByte(start, c, size) == Min(start + c - 1, size - 1)

\* a threshold that sends a file of exactly chunk size down the chunked path
UseChunked_GreaterEqual(size, c, fchunked, fsingle) ==
  IF fsingle THEN FALSE
  ELSE IF fchunked THEN TRUE
  ELSE size >= c

\* the two overrides tested in the other order: force-multipart wins
UseChunked_ChunkedWins(size, c, fchunked, fsingle) ==
  IF fchunked THEN TRUE
  ELSE IF fsingle THEN FALSE
  ELSE size > c

\* use_multipart / use_chunked of upload_file and download_file
UseChunked(size, c, fchunked, fsingle) ==
  IF fsingle THEN FALSE
  ELSE IF fchunked THEN TRUE
  ELSE size > c

\* a write that ignores the seek and lands at the end of the file
WriteAt_Append(f, offset, data) == f \o data

\* f.seek(offset); f.write(data) on a file opened 'r+b'
WriteAt(f, offset, data) ==
  LET n == IF offset + Len(data) > Len(f) THEN offset + Len(data) ELSE Len(f)
  IN  [i \in 1..n |->
         IF i > offset /\ i <= offset + Len(data) THEN data[i - offset]
         ELSE IF i <= Len(f) THEN f[i] ELSE 0]

RECURSIVE Insert(_, _)
Insert(s, x) ==
  IF s = <<>> THEN <<x>>
  ELSE IF x.PartNumber < Head(s).PartNumber THEN <<x>> \o s
  ELSE <<Head(s)>> \o Insert(Tail(s), x)

RECURSIVE InsertionSort(_)
InsertionSort(s) ==
  IF s = <<>> THEN <<>> ELSE Insert(InsertionSort(SubSeq(s, 1, Len(s) - 1)), s[Len(s)])

\* the list left in collection order
SortByPartNumber_Unsorted(s) == s

\* part_info.sort(key=lambda x: x['PartNumber'])
SortByPartNumber(s) == InsertionSort(s)

\* the request record kept in the log
Req(op, n, range, data, doc, uid, status) ==
  [op |-> op, n |-> n, range |-> range, data |-> data, doc |-> doc,
   uploadId |-> uid, status |-> status]

\* index of the part PUT / range GET of task n in the log
ReqIndex(op, n) == CHOOSE k \in 1..Len(requests) : requests[k].op = op /\ requests[k].n = n

SetStatus(op, n, st) == [requests EXCEPT ![ReqIndex(op, n)].status = st]

\* ---------------------------------------------------------------- strings
\* A str is the sequence of its characters, each a one-character string.
LowerCase == <<"a", "b", "c", "d", "e", "f", "g", "h", "i", "j", "k", "l", "m",
               "n", "o", "p", "q", "r", "s", "t", "u", "v", "w", "x", "y", "z">>
Digits == <<"0", "1", "2", "3", "4", "5", "6", "7", "8", "9">>
HexDigits == <<"0", "1", "2", "3", "4", "5", "6", "7", "8", "9",
               "A", "B", "C", "D", "E", "F">>

\* the ASCII characters in use, with their code points
Ascii ==
  (" " :> 32) @@ ("#" :> 35) @@ ("%" :> 37) @@ ("&" :> 38) @@ ("-" :> 45) @@
  ("." :> 46) @@ ("/" :> 47) @@ ("0" :> 48) @@ ("1" :> 49) @@ ("2" :> 50) @@
  ("3" :> 51) @@ ("4" :> 52) @@ ("5" :> 53) @@ ("6" :> 54) @@ ("7" :> 55) @@
  ("8" :> 56) @@ ("9" :> 57) @@ (":" :> 58) @@ (";" :> 59) @@ ("<" :> 60) @@
  ("=" :> 61) @@ (">" :> 62) @@ ("?" :> 63) @@ ("A" :> 65) @@ ("B" :> 66) @@
  ("C" :> 67) @@ ("D" :> 68) @@ ("E" :> 69) @@ ("F" :> 70) @@ ("G" :> 71) @@
  ("H" :> 72) @@ ("I" :> 73) @@ ("J" :> 74) @@ ("K" :> 75) @@ ("L" :> 76) @@
  ("M" :> 77) @@ ("N" :> 78) @@ ("O" :> 79) @@ ("P" :> 80) @@ ("Q" :> 81) @@
  ("R" :> 82) @@ ("S" :> 83) @@ ("T" :> 84) @@ ("U" :> 85) @@ ("V" :> 86) @@
  ("W" :> 87) @@ ("X" :> 88) @@ ("Y" :> 89) @@ ("Z" :> 90) @@ ("_" :> 95) @@
  ("a" :> 97) @@ ("b" :> 98) @@ ("c" :> 99) @@ ("d" :> 100) @@ ("e" :> 101) @@
  ("f" :> 102) @@ ("g" :> 103) @@ ("h" :> 104) @@ ("i" :> 105) @@ ("j" :> 106) @@
  ("k" :> 107) @@ ("l" :> 108) @@ ("m" :> 109) @@ ("n" :> 110) @@ ("o" :> 111) @@
  ("p" :> 112) @@ ("q" :> 113) @@ ("r" :> 114) @@ ("s" :> 115) @@ ("t" :> 116) @@
  ("u" :> 117) @@ ("v" :> 118) @@ ("w" :> 119) @@ ("x" :> 120) @@ ("y" :> 121) @@
  ("z" :> 122) @@ ("~" :> 126)

\* ord(c)
Code(c) == Ascii[c]

\* str.lower() of one character
LowerChar(c) == IF Code(c) \in 65..90 THEN LowerCase[Code(c) - 64] ELSE c

\* k.lower()
Lower(s) == [i \in 1..Len(s) |-> LowerChar(s[i])]

\* s < t for two str: code point order, a proper prefix first
RECURSIVE StrLess(_, _)
StrLess(s, t) ==
  IF t = <<>> THEN FALSE
  ELSE IF s = <<>> THEN TRUE
  ELSE IF s[1] = t[1] THEN StrLess(Tail(s), Tail(t))
  ELSE Code(s[1]) < Code(t[1])

RECURSIVE InsertStr(_, _)
InsertStr(ss, x) ==
  IF ss = <<>> THEN <<x>>
  ELSE IF StrLess(x, ss[1]) THEN <<x>> \o ss
  ELSE <<ss[1]>> \o InsertStr(Tail(ss), x)

\* sorted(keys) for a list of str
RECURSIVE Sorted(_)
Sorted(ss) == IF ss = <<>> THEN <<>> ELSE InsertStr(Sorted(Tail(ss)), ss[1])

\* sep.join(parts)
RECURSIVE Join(_, _)
Join(parts, sep) ==
  IF parts = <<>> THEN <<>>
  ELSE IF Len(parts) = 1 THEN parts[1]
  ELSE parts[1] \o sep \o Join(Tail(parts), sep)

\* position of the first character of s, from index i on, that is in set cs;
\* Len(s) + 1 when there is none
RECURSIVE FindFrom(_, _, _)
FindFrom(s, i, cs) ==
  IF i > Len(s) THEN Len(s) + 1
  ELSE IF s[i] \in cs THEN i
  ELSE FindFrom(s, i + 1, cs)

\* s.split(c): the pieces between the occurrences of character c
RECURSIVE Split(_, _)
Split(s, c) ==
  LET k == FindFrom(s, 1, {c}) IN
    IF k > Len(s) THEN <<s>>
    ELSE <<SubSeq(s, 1, k - 1)>> \o Split(SubSeq(s, k + 1, Len(s)), c)

\* s.split(c, 1): at most one split
Split1(s, c) ==
  LET k == FindFrom(s, 1, {c}) IN
    IF k > Len(s) THEN <<s>>
    ELSE <<SubSeq(s, 1, k - 1), SubSeq(s, k + 1, Len(s))>>

\* the characters urllib.parse.quote never encodes
Unreserved(c) ==
  \/ Code(c) \in 65..90 \/ Code(c) \in 97..122 \/ Code(c) \in 48..57
  \/ c \in {"_", ".", "-", "~"}

\* a quote that leaves the slash alone (safe='/')
QuoteChar_SlashSafe(c) ==
  IF Unreserved(c) \/ c = "/" THEN <<c>>
  ELSE <<"%", HexDigits[(Code(c) \div 16) + 1], HexDigits[(Code(c) % 16) + 1]>>

\* urllib.parse.quote(c, safe='') of one ASCII character
QuoteChar(c) ==
  IF Unreserved(c) THEN <<c>>
  ELSE <<"%", HexDigits[(Code(c) \div 16) + 1], HexDigits[(Code(c) % 16) + 1]>>

\* urllib.parse.quote(s, safe='')
RECURSIVE Quote(_)
Quote(s) == IF s = <<>> THEN <<>> ELSE QuoteChar(s[1]) \o Quote(Tail(s))

\* ------------------------------------------------------------------ dict
\* A dict is the sequence of its <<key, value>> items in insertion order.
DictKeys(d) == [i \in 1..Len(d) |-> d[i][1]]
DictHas(d, k) == \E i \in 1..Len(d) : d[i][1] = k
DictGet(d, k) == d[CHOOSE i \in 1..Len(d) : d[i][1] = k][2]

\* d[k] = v: an existing key keeps its place
DictSet(d, k, v) ==
  IF DictHas(d, k) THEN [i \in 1..Len(d) |-> IF d[i][1] = k THEN <<k, v>> ELSE d[i]]
  ELSE Append(d, <<k, v>>)

\* --------------------------------------------------------------- urlparse
\* urlparse(url) for scheme://netloc/path;params?query#fragment
NetlocStart(url) == FindFrom(url, 1, {":"}) + 3
PathStart(url) == FindFrom(url, NetlocStart(url), {"/", "?", "#"})
PathEnd(url) == FindFrom(url, PathStart(url), {"?", "#"})

\* urlparse(url).netloc
UrlNetloc(url) == SubSeq(url, NetlocStart(url), PathStart(url) - 1)

\* urlparse(url).path: up to the query, without the ;params of the last segment
UrlPath(url) ==
  LET full == SubSeq(url, PathStart(url), PathEnd(url) - 1)
      segs == Split(full, "/")
      last == segs[Len(segs)]
      semi == FindFrom(last, 1, {";"})
  IN  SubSeq(full, 1, Len(full) - (Len(last) - (semi - 1)))

\* urlparse(url).query
UrlQuery(url) ==
  IF PathEnd(url) > Len(url) \/ url[PathEnd(url)] # "?" THEN <<>>
  ELSE SubSeq(url, PathEnd(url) + 1, FindFrom(url, PathEnd(url), {"#"}) - 1)

\* -------------------------------------------------------- sign_request_v4
\* hashlib.sha256(b).hexdigest() and hmac.new(key, msg, sha256): the digest is
\* a token that stands for its input, so two digests are equal exactly when
\* their inputs are
Sha256(b) == [sha256 |-> b]
Hmac(key, msg) == [key |-> key, msg |-> msg]

\* s.encode('utf-8') for ASCII text
Encode(s) == [i \in 1..Len(s) |-> Code(s[i])]

XAmzDate == <<"x", "-", "a", "m", "z", "-", "d", "a", "t", "e">>
Host == <<"h", "o", "s", "t">>
XAmzContentSha256 == <<"x", "-", "a", "m", "z", "-", "c", "o", "n", "t", "e", "n", "t",
                       "-", "s", "h", "a", "2", "5", "6">>
Authorization == <<"A", "u", "t", "h", "o", "r", "i", "z", "a", "t", "i", "o", "n">>
Aws4Request == <<"a", "w", "s", "4", "_", "r", "e", "q", "u", "e", "s", "t">>
Aws4 == <<"A", "W", "S", "4">>

\* the path signed again through quote(path, safe='/')
CanonicalPath_Requoted(url) ==
  LET path == UrlPath(url)
      q == [i \in 1..Len(path) |-> QuoteChar_SlashSafe(path[i])]
  IN  IF path = <<>> THEN <<"/">> ELSE Join(q, <<>>)

\* path = parsed_url.path, '/' when empty
CanonicalPath(url) == IF UrlPath(url) = <<>> THEN <<"/">> ELSE UrlPath(url)

\* the loop over parsed_url.query.split('&') filling query_params
RECURSIVE ParseTokens(_, _)
ParseTokens(tokens, d) ==
  IF tokens = <<>> THEN d
  ELSE LET kv == Split1(tokens[1], "=")
       IN  ParseTokens(Tail(tokens),
                       DictSet(d, kv[1], IF Len(kv) = 2 THEN kv[2] ELSE <<>>))

QueryParams(url) ==
  IF UrlQuery(url) = <<>> THEN <<>> ELSE ParseTokens(Split(UrlQuery(url), "&"), <<>>)

\* sorted(query_params.keys())
QueryKeyOrder(keys) == Sorted(keys)

\* '&'.join(quote(k) + '=' + quote(query_params[k]) for k in sorted keys)
CanonicalQueryString(url) ==
  LET qp == QueryParams(url)
      keys == QueryKeyOrder(DictKeys(qp))
  IN  Join([i \in 1..Len(keys) |->
              Quote(keys[i]) \o <<"=">> \o Quote(DictGet(qp, keys[i]))], <<"&">>)

\* the headers under the names they were given
NormalizedHeaders_AsGiven(h) == h

\* {k.lower(): v for k, v in headers.items()}
RECURSIVE NormalizedHeaders(_)
NormalizedHeaders(h) ==
  IF h = <<>> THEN <<>>
  ELSE LET rest == NormalizedHeaders(SubSeq(h, 1, Len(h) - 1))
           item == h[Len(h)]
       IN  DictSet(rest, Lower(item[1]), item[2])

\* sorted(headers.keys()) of the normalized headers
SignedHeaderNames(h) == Sorted(DictKeys(NormalizedHeaders(h)))

\* the lines "key:value\n" of canonical_headers, as <<key, value>>
CanonicalHeaders(h) ==
  LET nh == NormalizedHeaders(h)
      names == Sorted(DictKeys(nh))
  IN  [i \in 1..Len(names) |-> <<names[i], DictGet(nh, names[i])>>]

\* ';'.join(sorted(headers.keys()))
SignedHeaders(h) == Join(SignedHeaderNames(h), <<";">>)

\* body of a request: None, bytes, or a str
None == [kind |-> "None", val |-> <<>>]
Bytes(b) == [kind |-> "bytes", val |-> b]
Text(s) == [kind |-> "str", val |-> s]

\* the bytes hashed as payload (lines 71-76 and 163-168)
BodyBytes(data) ==
  IF data.kind = "None" THEN <<>>
  ELSE IF data.kind = "bytes" THEN data.val
  ELSE Encode(data.val)

\* payload_hash: sha256 of the body's bytes, of b'' when there is no body
PayloadHash(data) == Sha256(BodyBytes(data))

\* the six lines of canonical_request
CanonicalRequest(method, url, headers, data) ==
  <<method, CanonicalPath(url), CanonicalQueryString(url), CanonicalHeaders(headers),
    SignedHeaders(headers), PayloadHash(data)>>

\* headers['x-amz-date'] raises KeyError
SignRaises(headers) == ~DictHas(NormalizedHeaders(headers), XAmzDate)

\* a number as two digits (%d, %H, %M, %S)
TwoDigits(n) == <<Digits[(n \div 10) + 1], Digits[(n % 10) + 1]>>

\* datetime.now(UTC).strftime('%Y%m%dT%H%M%SZ') after t seconds of a process
\* started on 2026-01-01 at 23:59:59 UTC
AmzDateAt(t) ==
  LET total == 86399 + t
      sod == total % 86400
  IN  <<"2", "0", "2", "6", "0", "1">> \o TwoDigits(1 + (total \div 86400)) \o <<"T">> \o
      TwoDigits(sod \div 3600) \o TwoDigits((sod % 3600) \div 60) \o TwoDigits(sod % 60) \o
      <<"Z">>

\* a date read from the clock at signing time
AmzDateOf_Now(headers) == AmzDateAt(clock)

\* amz_date = headers['x-amz-date']
AmzDateOf(headers) == DictGet(NormalizedHeaders(headers), XAmzDate)

\* amz_date[:8]
Date8(amz_date) == SubSeq(amz_date, 1, Min(8, Len(amz_date)))

\* f"{amz_date[:8]}/{region}/{service}/aws4_request"
CredentialScope(amz_date, region, service) ==
  Join(<<Date8(amz_date), region, service, Aws4Request>>, <<"/">>)

\* algorithm, amz_date, credential_scope and the hash of the canonical request
StringToSign(amz_date, credential_scope, canonical_request) ==
  <<"AWS4-HMAC-SHA256", amz_date, credential_scope, Sha256(canonical_request)>>

SigningKey(amz_date, region, service, secret_key) ==
  Hmac(Hmac(Hmac(Hmac(Encode(Aws4 \o secret_key), Encode(Date8(amz_date))),
                 Encode(region)),
            Encode(service)),
       Encode(Aws4Request))

\* the Authorization value, by its parts
sign_request_v4(method, url, region, service, headers, data, access_key, secret_key) ==
  LET canonical_request == CanonicalRequest(method, url, headers, data)
      amz_date == AmzDateOf(headers)
      credential_scope == CredentialScope(amz_date, region, service)
  IN  [algorithm |-> "AWS4-HMAC-SHA256",
       Credential |-> access_key \o <<"/">> \o credential_scope,
       SignedHeaders |-> canonical_request[5],
       Signature |-> Hmac(SigningKey(amz_date, region, service, secret_key),
                          StringToSign(amz_date, credential_scope, canonical_request))]

\* -------------------------------------------------------- make_s3_request
AccessKeyId == <<"a", "w", "s", "_", "a", "c", "c", "e", "s", "s", "_", "k", "e", "y",
                 "_", "i", "d">>
SecretAccessKey == <<"a", "w", "s", "_", "s", "e", "c", "r", "e", "t", "_", "a", "c", "c",
                     "e", "s", "s", "_", "k", "e", "y">>
EndpointUrl == <<"e", "n", "d", "p", "o", "i", "n", "t", "_", "u", "r", "l">>
RegionKey == <<"r", "e", "g", "i", "o", "n">>
UsEast1 == <<"u", "s", "-", "e", "a", "s", "t", "-", "1">>
S3 == <<"s", "3">>

\* profile.get(k, default)
DictGetOr(d, k, default) == IF DictHas(d, k) THEN DictGet(d, k) ELSE default

\* profile.get('region', 'us-east-1')
RegionOf(p) == DictGetOr(p, RegionKey, UsEast1)

\* profile.get('endpoint_url', f"https://s3.{region}.amazonaws.com")
EndpointOf(p) ==
  DictGetOr(p, EndpointUrl,
            <<"h", "t", "t", "p", "s", ":", "/", "/", "s", "3", ".">> \o RegionOf(p) \o
            <<".", "a", "m", "a", "z", "o", "n", "a", "w", "s", ".", "c", "o", "m">>)

\* '/'.join(quote(part, safe='') for part in key.split('/'))
EncodedKey(key) ==
  LET parts == Split(key, "/")
  IN  Join([i \in 1..Len(parts) |-> Quote(parts[i])], <<"/">>)

\* the URL of lines 134-149; an absent bucket, key or params is empty
RequestUrl(p, bucket, key, params) ==
  LET e == EndpointOf(p)
      stripped == IF e # <<>> /\ e[Len(e)] = "/" THEN SubSeq(e, 1, Len(e) - 1) ELSE e
      base == IF bucket = <<>> THEN e
              ELSE stripped \o <<"/">> \o bucket \o
                   (IF key = <<>> THEN <<>> ELSE <<"/">> \o EncodedKey(key))
  IN  IF params = <<>> THEN base
      ELSE base \o <<"?">> \o
           Join([i \in 1..Len(params) |-> params[i][1] \o <<"=">> \o params[i][2]], <<"&">>)

\* profile[k] where it does not raise
ProfileEntry(p, k) == DictGetOr(p, k, <<>>)

\* no request, no call of sign_request_v4, no result of one
NoRequest == [method |-> "none"]
NoArgs == [method |-> "none"]
NoResult == [err |-> "nocall"]

\* one dict used for call after call: it still holds what the latest call put in
CallerHeaders_Reused(call) ==
  IF signArgs # NoArgs /\ signOut.err = "none"
    THEN DictSet(signArgs.headers, Authorization, signOut.auth)
    ELSE call.headers

\* the headers argument of the call: a dict of its own
CallerHeaders(call) == call.headers

\* the headers as make_s3_request hands them to sign_request_v4 (lines 160-170)
StandardHeaders(headers, url, data, t) ==
  DictSet(DictSet(DictSet(headers, XAmzDate, AmzDateAt(t)),
                  Host, UrlNetloc(url)),
          XAmzContentSha256, PayloadHash(data))

\* a profile lookup that yields an empty key instead of raising
ProfileRaises_Never(p) == FALSE

\* profile['aws_access_key_id'] or profile['aws_secret_access_key'] raises KeyError
ProfileRaises(p) == ~DictHas(p, AccessKeyId) \/ ~DictHas(p, SecretAccessKey)

\* what a call of sign_request_v4 with arguments a returns or raises
SignResult(a) ==
  IF SignRaises(a.headers) THEN [err |-> "KeyError"]
  ELSE [err |-> "none",
        auth |-> sign_request_v4(a.method, a.url, a.region, a.service, a.headers,
                                 a.data, a.access_key, a.secret_key)]

\* ------------------------------------------------ profiles and the calls made
AccessKey == <<"A", "K">>
SecretKey == <<"s", "k">>

\* a profile of the configuration file, and what is left of it when entries are missing
FullProfile ==
  <<<<AccessKeyId, AccessKey>>, <<SecretAccessKey, SecretKey>>,
    <<EndpointUrl, <<"h", "t", "t", "p", ":", "/", "/", "h", ":", "9", "/">>>>, <<RegionKey, <<"r", "1">>>>>>
DefaultsProfile == <<<<AccessKeyId, AccessKey>>, <<SecretAccessKey, SecretKey>>>>
NoAccessKeyProfile == <<<<SecretAccessKey, SecretKey>>, <<RegionKey, <<"r", "1">>>>>>
NoSecretKeyProfile == <<<<AccessKeyId, AccessKey>>, <<EndpointUrl, <<"h", "t", "t", "p", ":", "/", "/", "h", ":", "9">>>>>>
Profiles == {FullProfile, DefaultsProfile, NoAccessKeyProfile, NoSecretKeyProfile}

Buckets == {<<"b", "k">>}
\* object keys: with a space, with a slash, with a percent sign and a question mark
Keys == {<<"a", " ", "b">>, <<"d", "/", "f", "~", "g">>, <<"1", "%", "?">>}

\* make_s3_request(method, bucket, key, profile, params, data, headers); an absent
\* bucket, key, params or headers is empty
Call(method, bucket, key, params, data, headers) ==
  [method |-> method, bucket |-> bucket, key |-> key, params |-> params, data |-> data,
   headers |-> headers]

\* the calls the commands make for an object
ObjectCalls(b, k) ==
  {Call(<<"H", "E", "A", "D">>, b, k, <<>>, None, <<>>),
   Call(<<"G", "E", "T">>, b, k, <<>>, None, <<>>),
   Call(<<"G", "E", "T">>, b, k, <<>>, None, <<<<<<"R", "a", "n", "g", "e">>, <<"b", "y", "t", "e", "s", "=", "0", "-", "1">>>>>>),
   Call(<<"P", "U", "T">>, b, k, <<>>, Bytes(<<1, 2>>),
        <<<<<<"C", "o", "n", "t", "e", "n", "t", "-", "T", "y", "p", "e">>, <<"t", "e", "x", "t", "/", "p", "l", "a", "i", "n">>>>, <<<<"C", "o", "n", "t", "e", "n", "t", "-", "L", "e", "n", "g", "t", "h">>, <<"2">>>>>>),
   Call(<<"P", "O", "S", "T">>, b, k, <<<<<<"u", "p", "l", "o", "a", "d", "s">>, <<>>>>>>, None, <<>>),
   Call(<<"P", "U", "T">>, b, k, <<<<<<"p", "a", "r", "t", "N", "u", "m", "b", "e", "r">>, <<"1">>>>, <<<<"u", "p", "l", "o", "a", "d", "I", "d">>, <<"u", "1">>>>>>,
        Bytes(<<1>>), <<<<<<"C", "o", "n", "t", "e", "n", "t", "-", "L", "e", "n", "g", "t", "h">>, <<"1">>>>>>),
   Call(<<"D", "E", "L", "E", "T", "E">>, b, k, <<<<<<"u", "p", "l", "o", "a", "d", "I", "d">>, <<"u", "1">>>>>>, None, <<>>),
   Call(<<"P", "O", "S", "T">>, b, k, <<<<<<"u", "p", "l", "o", "a", "d", "I", "d">>, <<"u", "1">>>>>>, Text(<<"<", "x", "/", ">">>),
        <<<<<<"C", "o", "n", "t", "e", "n", "t", "-", "T", "y", "p", "e">>, <<"a", "p", "p", "l", "i", "c", "a", "t", "i", "o", "n", "/", "x", "m", "l">>>>>>)}

\* the calls the commands make: every kind of call for one key, the plain
\* transfers for every key, and the listings
CommandCalls ==
  {Call(<<"G", "E", "T">>, <<>>, <<>>, <<>>, None, <<>>)} \cup
  {Call(<<"G", "E", "T">>, b, <<>>, p, None, <<>>) :
     b \in Buckets,
     p \in {<<<<<<"l", "i", "s", "t", "-", "t", "y", "p", "e">>, <<"2">>>>, <<<<"d", "e", "l", "i", "m", "i", "t", "e", "r">>, <<"/">>>>>>,
            <<<<<<"l", "i", "s", "t", "-", "t", "y", "p", "e">>, <<"2">>>>, <<<<"d", "e", "l", "i", "m", "i", "t", "e", "r">>, <<"/">>>>, <<<<"p", "r", "e", "f", "i", "x">>, <<"d">>>>>>}} \cup
  UNION {ObjectCalls(b, <<"a", " ", "b">>) : b \in Buckets} \cup
  {c \in UNION {ObjectCalls(b, k) : b \in Buckets, k \in Keys} :
     c.params = <<>> /\ c.headers = <<>> /\ c.method = <<"G", "E", "T">>}

\* arguments of a direct call of sign_request_v4
SignArgs(method, url, headers, data) ==
  [method |-> method, url |-> url, region |-> <<"r", "1">>, service |-> S3, headers |-> headers,
   data |-> data, access_key |-> AccessKey, secret_key |-> SecretKey]

QueryTokens == {<<"a", "=", "1">>, <<"b", "=", "2">>, <<"a", "=", "2">>}
MaxTokens == 2

\* the lists of at most MaxTokens different tokens
TokenLists ==
  {l \in UNION {[1..n -> QueryTokens] : n \in 0..MaxTokens} :
     \A i, j \in 1..Len(l) : i # j => l[i] # l[j]}

\* a URL with the tokens as its query string
UrlWith(base, tokens) ==
  IF tokens = <<>> THEN base ELSE base \o <<"?">> \o Join(tokens, <<"&">>)

JustDate == <<<<<<"x", "-", "a", "m", "z", "-", "d", "a", "t", "e">>, <<"2", "0", "2", "6", "0", "1", "0", "1", "T", "0", "0", "0", "0", "0", "0", "Z">>>>>>
HeaderDicts ==
  {JustDate,
   <<<<<<"X", "-", "A", "m", "z", "-", "D", "a", "t", "e">>, <<"2", "0", "2", "6", "0", "1", "0", "2", "T", "0", "0", "0", "0", "0", "0", "Z">>>>, <<<<"h", "o", "s", "t">>, <<"h">>>>>>,
   <<<<<<"h", "o", "s", "t">>, <<"h">>>>, <<<<"R", "a", "n", "g", "e">>, <<"b", "y", "t", "e", "s", "=", "0", "-", "1">>>>>>,
   <<<<<<"H", "o", "s", "t">>, <<"h">>>>, <<<<"x", "-", "a", "m", "z", "-", "d", "a", "t", "e">>, <<"2", "0", "2", "6", "0", "1", "0", "1", "T", "0", "0", "0", "0", "0", "0", "Z">>>>, <<<<"h", "o", "s", "t">>, <<"g">>>>>>,
   <<<<<<"b">>, <<"1">>>>, <<<<"x", "-", "a", "m", "z", "-", "d", "a", "t", "e">>, <<"2", "0", "2", "6", "0", "1", "0", "1", "T", "0", "0", "0", "0", "0", "0", "Z">>>>, <<<<"B">>, <<"2">>>>, <<<<"a">>, <<"3">>>>>>}

SignInputs ==
  {SignArgs(<<"G", "E", "T">>, UrlWith(<<"h", "t", "t", "p", ":", "/", "/", "h", "/", "p">>, tokens), JustDate, None) : tokens \in TokenLists} \cup
  {SignArgs(<<"G", "E", "T">>, url, JustDate, None) :
     url \in {<<"h", "t", "t", "p", ":", "/", "/", "h">>, <<"h", "t", "t", "p", ":", "/", "/", "h", "/", "p", "?", "c", "&", "a", "=", "/">>}} \cup
  {SignArgs(<<"P", "U", "T">>, <<"h", "t", "t", "p", ":", "/", "/", "h", "/", "b", "k", "/", "k">>, h, Bytes(<<1>>)) : h \in HeaderDicts}

\* ------------------------------------------------------- remote service
\* ETag header of the response to a part PUT: an opaque token per stored part
ETagOf(p, data) == <<p, data>>

\* upload ids the service may assign to a new multipart session
UploadIds == {1, 2}

\* the service answers 200 to a completion only if every listed part is stored
CompleteAcceptable(doc) ==
  \A i \in 1..Len(doc) :
     /\ doc[i].PartNumber \in DOMAIN stored
     /\ doc[i].ETag = ETagOf(doc[i].PartNumber, stored[doc[i].PartNumber])

RECURSIVE ConcatAscending(_)
ConcatAscending(ps) ==
  IF ps = {} THEN <<>>
  ELSE LET m == SetMin(ps) IN stored[m] \o ConcatAscending(ps \ {m})

\* the completed object: the listed parts, by ascending part number
Assemble(doc) == ConcatAscending({doc[i].PartNumber : i \in 1..Len(doc)})

StorePart(p, data) ==
  [q \in (DOMAIN stored) \cup {p} |-> IF q = p THEN data ELSE stored[q]]

\* the service serves exactly the requested inclusive byte range
ServeRange(s, e) == SubSeq(object.data, s + 1, e + 1)

\* the text of an error response, which is no byte of the object
ErrorBody == <<-1>>

\* response.content of a GET with a Range header: the range with status 206,
\* the whole object with status 200 (a service that ignores Range)
ResponseBody(st, s, e) ==
  IF st = "206" THEN ServeRange(s, e)
  ELSE IF st = "200" THEN object.data
  ELSE ErrorBody

Statuses == {"200", "500", "exc"}

\* ------------------------------------------------------ status checks
\* an initiate answered with an upload id accepted
InitiateOk_Unchecked(st) == st # "exc"

\* "if response.status_code != 200: return" after the initiate POST
InitiateOk(st) == st = "200"

\* a completion reported as done whatever its status
CompleteOk_Unchecked(st) == st # "exc"

\* "if response.status_code == 200" after the completion POST
CompleteOk(st) == st = "200"

\* a probe accepted whatever its status
ProbeOk_Unchecked(st) == st # "exc"

\* "if head_response.status_code != 200: return" after the HEAD probe
ProbeOk(st) == st = "200"

\* a ranged GET accepted whatever its status
RangeOk_Unchecked(st) == st # "exc"

\* "if response.status_code not in (200, 206)" after a ranged GET
RangeOk(st) == st \in {"200", "206"}

\* ------------------------------------------------- multipart bookkeeping
\* a part recorded under the number before its own
PartResult_OffByOne(n, etag) == [PartNumber |-> n - 1, ETag |-> etag]

\* {'PartNumber': part_number, 'ETag': etag} with the ETag of the PUT response
PartResult(n, etag) == [PartNumber |-> n, ETag |-> etag]

\* a request sent with the id of another session
UploadIdParam_Other == CHOOSE id \in UploadIds : id # upload_id

\* the 'uploadId' query parameter of part PUT, abort and completion
UploadIdParam == upload_id

\* ---------------------------------------------------------------- Init
\* the transfer engine before any command, with one of the given source files
\* and destination paths
XferInit(files, dests) ==
  /\ srcFile \in files
  /\ object = NoFile
  /\ destFile \in dests
  /\ upPath = "none"
  /\ cmd = "none"
  /\ pc = "idle"
  /\ result = "running"
  /\ chunk_size = 1
  /\ max_workers = 1
  /\ force_chunked = FALSE
  /\ force_single = FALSE
  /\ file_size = 0
  /\ chunk_count = 0
  /\ upload_id = 0
  /\ part_info = <<>>
  /\ part_number = 1
  /\ pos = 0
  /\ start_byte = 0
  /\ taskSt = <<>>
  /\ taskVal = <<>>
  /\ collected = <<>>
  /\ stored = <<>>
  /\ requests = <<>>

\* the signing layer before any call
SigIdle ==
  /\ clock = 0
  /\ outcome = "none"
  /\ sent = NoRequest
  /\ signArgs = NoArgs
  /\ signOut = NoResult
  /\ signedAt = 0
  /\ signAgain = NoResult
  /\ againAt = 0

\* no move_file and no search in this process
ObjIdle ==
  /\ store = <<>>
  /\ moveArgs = <<>>
  /\ searchArgs = <<>>
  /\ searchParams = <<>>
  /\ continuation_token = ""
  /\ matches = <<>>
  /\ displayed = <<>>

Init == XferInit(SourcePaths, DestPaths) /\ SigIdle /\ profile = FullProfile /\ ObjIdle


\* ---------------------------------------------------------------- commands
UploadCmds == {"upload_file_single", "upload_file_multipart", "upload_file_parallel"}
DownloadCmds == {"download_file", "parallel_download", "download_file_single",
                 "download_file_chunked", "download_file_parallel"}
Terminal == {"done", "crashed"}

\* one CLI invocation is one process: an upload runs first, a download after it
CanStartUpload == cmd = "none"
CanStartDownload == cmd = "none" \/ (cmd \in UploadCmds /\ pc \in Terminal)

\* a fresh process: nothing of the previous invocation survives but the files
FreshRun ==
  /\ upload_id' = 0
  /\ part_info' = <<>>
  /\ part_number' = 1
  /\ pos' = 0
  /\ start_byte' = 0
  /\ collected' = <<>>
  /\ stored' = <<>>

Finish(r) ==
  /\ pc' = IF r = "crashed" THEN "crashed" ELSE "done"
  /\ result' = r

\* ------------------------------------------------------------ upload_file
upload_file(fm, fs, c) ==
  /\ CanStartUpload
  /\ FreshRun
  /\ chunk_size' = c
  /\ max_workers' = 1
  /\ force_chunked' = fm
  /\ force_single' = fs
  /\ chunk_count' = 0
  /\ IF ~IsFile(srcFile)
       THEN /\ cmd' = "upload_file" /\ pc' = "done"
            /\ result' = "failed"
            /\ file_size' = 0
       ELSE /\ IF UseChunked(Len(srcFile), c, fm, fs)
                 THEN cmd' = "upload_file_multipart" /\ pc' = "initiate"
                 ELSE cmd' = "upload_file_single" /\ pc' = "put"
            /\ result' = "running"
            /\ file_size' = Len(srcFile)
  /\ taskSt' = <<>> /\ taskVal' = <<>>
  /\ requests' = <<>>
  /\ UNCHANGED <<sigVars, objVars, srcFile, object, destFile, upPath>>

\* ------------------------------------------------------ upload_file_single
upload_file_single(st) ==
  /\ cmd = "upload_file_single" /\ pc = "put"
  /\ requests' = Append(requests, Req("put", 0, <<>>, srcFile, <<>>, 0, st))
  /\ IF st = "200"
       THEN object' = FileOf(srcFile) /\ upPath' = "single" /\ Finish("success")
       ELSE UNCHANGED <<object, upPath>>
            /\ Finish(IF st = "exc" THEN "crashed" ELSE "failed")
  /\ UNCHANGED <<sigVars, objVars, srcFile, destFile, cmd, upload_id, part_info, stored>>
  /\ UNCHANGED <<runVars, seqVars, parVars>>

\* --------------------------------------------------- upload_file_multipart
MpInitiate(st, id) ==
  /\ cmd = "upload_file_multipart" /\ pc = "initiate"
  /\ requests' = Append(requests, Req("initiate", 0, <<>>, <<>>, <<>>, 0, st))
  /\ IF InitiateOk(st)
       THEN upload_id' = id /\ pc' = "parts" /\ UNCHANGED result
       ELSE UNCHANGED upload_id
            /\ Finish(IF st = "exc" THEN "crashed" ELSE "failed")
  /\ UNCHANGED <<sigVars, objVars, srcFile, object, destFile, upPath, cmd, part_info, stored>>
  /\ UNCHANGED <<runVars, seqVars, parVars>>

\* one iteration of the read loop: data = file.read(chunk_size), PUT, record
MpUploadPart(st) ==
  /\ cmd = "upload_file_multipart" /\ pc = "parts"
  /\ LET data == FileRead(srcFile, pos, chunk_size) IN
     /\ data # <<>>
     /\ requests' = Append(requests,
                      Req("part", part_number, <<>>, data, <<>>, UploadIdParam, st))
     /\ pos' = pos + Len(data)
     /\ IF st = "200"
          THEN /\ stored' = StorePart(part_number, data)
               /\ part_info' = Append(part_info,
                     PartResult(part_number, ETagOf(part_number, data)))
               /\ part_number' = part_number + 1
               /\ UNCHANGED <<pc, result>>
          ELSE /\ UNCHANGED <<stored, part_info, part_number>>
               /\ IF st = "exc" THEN Finish("crashed")
                  ELSE pc' = "abort" /\ UNCHANGED result
  /\ UNCHANGED <<sigVars, objVars, srcFile, object, destFile, upPath, cmd, upload_id, start_byte>>
  /\ UNCHANGED <<runVars, parVars>>

MpAbort(st) ==
  /\ cmd = "upload_file_multipart" /\ pc = "abort"
  /\ requests' = Append(requests, Req("abort", 0, <<>>, <<>>, <<>>, UploadIdParam, st))
  /\ Finish(IF st = "exc" THEN "crashed" ELSE "failed")
  /\ UNCHANGED <<sigVars, objVars, srcFile, object, destFile, upPath, cmd, upload_id, part_info, stored>>
  /\ UNCHANGED <<runVars, seqVars, parVars>>

\* the loop ends when file.read returns no data
MpLoopDone == FileRead(srcFile, pos, chunk_size) = <<>>

MpCompletionDoc == part_info

MpComplete(st) ==
  /\ cmd = "upload_file_multipart" /\ pc = "parts"
  /\ MpLoopDone
  /\ st = "200" => CompleteAcceptable(MpCompletionDoc)
  /\ requests' = Append(requests,
                   Req("complete", 0, <<>>, <<>>, MpCompletionDoc, UploadIdParam, st))
  /\ IF st = "200"
       THEN object' = FileOf(Assemble(MpCompletionDoc)) /\ upPath' = "multipart"
       ELSE UNCHANGED <<object, upPath>>
  /\ Finish(IF st = "exc" THEN "crashed"
            ELSE IF CompleteOk(st) THEN "success" ELSE "failed")
  /\ UNCHANGED <<sigVars, objVars, srcFile, destFile, cmd, upload_id, part_info, stored>>
  /\ UNCHANGED <<runVars, seqVars, parVars>>


\* ---------------------------------------------------- ThreadPoolExecutor
Tasks == DOMAIN taskSt
\* a pool that puts a chunk whose call failed back on the queue
Queued_IncludingFailed == {t \in Tasks : taskSt[t] \in {"queued", "none"}}

\* work items submitted to the executor and not yet taken by a worker
Queued == {t \in Tasks : taskSt[t] = "queued"}
Running == {t \in Tasks : taskSt[t] = "running"}
Finished == {t \in Tasks : taskSt[t] \in {"ok", "none", "raised"}}

\* a pool that starts a thread for every queued work item
CanStart_Unbounded(t) ==
  /\ Queued # {}
  /\ t = SetMin(Queued)

\* a worker thread is free and takes the oldest queued work item
CanStart(t) ==
  /\ Queued # {}
  /\ t = SetMin(Queued)
  /\ Cardinality(Running) < max_workers

\* the pool lives until shutdown(wait=True) of the with-block has returned
PoolAlive == pc \in {"collect", "abort", "join_return", "join_raise"}

Collected == {collected[k] : k \in 1..Len(collected)}

\* the loop going on after a failed result
Collecting_AfterFailure == pc \in {"collect", "join_return"}

\* the orchestrator is inside the as_completed loop
Collecting == pc = "collect"

\* the loop left after the first collected result
AllCollected_First == Tasks = {} \/ collected # <<>>

\* as_completed has handed every future to the loop
AllCollected == Collected = Tasks

\* shutdown(wait=True) returns once no work item is queued or running
PoolDrained == Finished = Tasks

\* ------------------------------------------------------- parallel_upload
parallel_upload(c, w) ==
  /\ CanStartUpload
  /\ FreshRun
  /\ IF ~IsFile(srcFile)
       THEN /\ cmd' = "parallel_upload" /\ pc' = "done"
            /\ result' = "failed"
            /\ file_size' = 0
       ELSE /\ cmd' = "upload_file_parallel" /\ pc' = "initiate"
            /\ result' = "running"
            /\ file_size' = Len(srcFile)
  /\ chunk_size' = c
  /\ max_workers' = w
  /\ force_chunked' = FALSE
  /\ force_single' = FALSE
  /\ chunk_count' = 0
  /\ taskSt' = <<>> /\ taskVal' = <<>>
  /\ requests' = <<>>
  /\ UNCHANGED <<sigVars, objVars, srcFile, object, destFile, upPath>>

\* initiate, then chunk_count and the submission of every part to the pool
ParInitiate(st, id) ==
  /\ cmd = "upload_file_parallel" /\ pc = "initiate"
  /\ requests' = Append(requests, Req("initiate", 0, <<>>, <<>>, <<>>, 0, st))
  /\ IF InitiateOk(st)
       THEN /\ upload_id' = id
            /\ chunk_count' = ChunkCount(file_size, chunk_size)
            /\ taskSt' = [t \in 1..ChunkCount(file_size, chunk_size) |-> "queued"]
            /\ taskVal' = [t \in 1..ChunkCount(file_size, chunk_size) |-> <<>>]
            /\ pc' = "collect"
            /\ UNCHANGED result
       ELSE /\ UNCHANGED <<upload_id, chunk_count, taskSt, taskVal>>
            /\ Finish(IF st = "exc" THEN "crashed" ELSE "failed")
  /\ UNCHANGED <<sigVars, objVars, srcFile, object, destFile, upPath, cmd, part_info, stored, collected>>
  /\ UNCHANGED <<chunk_size, max_workers, force_chunked, force_single, file_size>>
  /\ UNCHANGED seqVars

\* a worker that reads from the start of the file, without the seek
PartData_NoSeek(p) == FileRead(srcFile, 0, chunk_size)

\* the bytes upload_part reads for a part
PartData(p) == FileRead(srcFile, PartStart(p, chunk_size), chunk_size)

\* upload_part up to the PUT: a worker reads the part and sends it
UploadPartStart(p) ==
  /\ cmd = "upload_file_parallel" /\ PoolAlive
  /\ CanStart(p)
  /\ taskSt' = [taskSt EXCEPT ![p] = "running"]
  /\ requests' = Append(requests,
                   Req("part", p, <<>>, PartData(p), <<>>, UploadIdParam, "pending"))
  /\ UNCHANGED <<sigVars, objVars, srcFile, object, destFile, upPath, cmd, pc, result, upload_id,
                 part_info, stored, taskVal, collected>>
  /\ UNCHANGED <<runVars, seqVars>>

\* a worker that appends its own result to the shared list
PartInfoAfterUploadPart_Appends(p, st) ==
  IF st = "200" THEN Append(part_info, PartResult(p, ETagOf(p, PartData(p))))
  ELSE part_info

\* upload_part assigns to nothing of the enclosing function: part_info is as
\* it was when the worker returns
PartInfoAfterUploadPart(p, st) == part_info

\* upload_part after the PUT: the response arrives and the future finishes
UploadPartFinish(p, st) ==
  /\ cmd = "upload_file_parallel" /\ PoolAlive
  /\ p \in Running
  /\ requests' = SetStatus("part", p, st)
  /\ IF st = "200"
       THEN /\ stored' = StorePart(p, PartData(p))
            /\ taskSt' = [taskSt EXCEPT ![p] = "ok"]
            /\ taskVal' = [taskVal EXCEPT ![p] =
                              PartResult(p, ETagOf(p, PartData(p)))]
       ELSE /\ UNCHANGED <<stored, taskVal>>
            /\ taskSt' = [taskSt EXCEPT ![p] = IF st = "exc" THEN "raised" ELSE "none"]
  /\ part_info' = PartInfoAfterUploadPart(p, st)
  /\ UNCHANGED <<sigVars, objVars, srcFile, object, destFile, upPath, cmd, pc, result, upload_id,
                 collected>>
  /\ UNCHANGED <<runVars, seqVars>>

\* one iteration of "for future in as_completed(future_to_part)"
ParCollect(p) ==
  /\ cmd = "upload_file_parallel" /\ Collecting
  /\ p \in Finished \ Collected
  /\ collected' = Append(collected, p)
  /\ IF taskSt[p] = "ok"
       THEN part_info' = Append(part_info, taskVal[p]) /\ UNCHANGED pc
       ELSE /\ UNCHANGED part_info
            /\ pc' = IF taskSt[p] = "raised" THEN "join_raise" ELSE "abort"
  /\ UNCHANGED <<sigVars, objVars, srcFile, object, destFile, upPath, cmd, result, upload_id, stored,
                 taskSt, taskVal, requests>>
  /\ UNCHANGED <<runVars, seqVars>>

ParAbort(st) ==
  /\ cmd = "upload_file_parallel" /\ pc = "abort"
  /\ requests' = Append(requests, Req("abort", 0, <<>>, <<>>, <<>>, UploadIdParam, st))
  /\ pc' = IF st = "exc" THEN "join_raise" ELSE "join_return"
  /\ UNCHANGED <<sigVars, objVars, srcFile, object, destFile, upPath, cmd, result, upload_id,
                 part_info, stored>>
  /\ UNCHANGED <<runVars, seqVars, parVars>>

\* leaving the with-block by return or by an exception: shutdown(wait=True)
ParJoin ==
  /\ cmd = "upload_file_parallel" /\ pc \in {"join_return", "join_raise"}
  /\ PoolDrained
  /\ Finish(IF pc = "join_raise" THEN "crashed" ELSE "failed")
  /\ UNCHANGED <<sigVars, objVars, srcFile, object, destFile, upPath, cmd, upload_id, part_info,
                 stored, requests>>
  /\ UNCHANGED <<runVars, seqVars, parVars>>

ParCompletionDoc == SortByPartNumber(part_info)

ParComplete(st) ==
  /\ cmd = "upload_file_parallel" /\ pc = "collect"
  /\ AllCollected
  /\ st = "200" => CompleteAcceptable(ParCompletionDoc)
  /\ requests' = Append(requests,
                   Req("complete", 0, <<>>, <<>>, ParCompletionDoc, UploadIdParam, st))
  /\ part_info' = ParCompletionDoc
  /\ IF st = "200"
       THEN object' = FileOf(Assemble(ParCompletionDoc)) /\ upPath' = "parallel"
       ELSE UNCHANGED <<object, upPath>>
  /\ Finish(IF st = "exc" THEN "crashed"
            ELSE IF CompleteOk(st) THEN "success" ELSE "failed")
  /\ UNCHANGED <<sigVars, objVars, srcFile, destFile, cmd, upload_id, stored>>
  /\ UNCHANGED <<runVars, seqVars, parVars>>


\* ----------------------------------------------------------- download_file
\* statuses the service can answer to a request for the object
ObjectStatuses == IF object.exists THEN Statuses ELSE Statuses \ {"200"}
RangeStatuses == IF object.exists THEN {"200", "206", "500", "exc"} ELSE {"500", "exc"}

\* file_size = int(head_response.headers.get('Content-Length', 0))
ContentLength == Len(object.data)

FreshDownload(c, w, fc, fs) ==
  /\ CanStartDownload
  /\ FreshRun
  /\ chunk_size' = c
  /\ max_workers' = w
  /\ force_chunked' = fc
  /\ force_single' = fs
  /\ UNCHANGED <<sigVars, objVars, srcFile, object, upPath>>

\* HEAD probe, the single/chunked decision, and the open(local_path, 'wb')
\* with which download_file_chunked begins
download_file(fc, fs, c, st) ==
  /\ FreshDownload(c, 1, fc, fs)
  /\ st \in ObjectStatuses
  /\ requests' = <<Req("head", 0, <<>>, <<>>, <<>>, 0, st)>>
  /\ chunk_count' = 0
  /\ taskSt' = <<>> /\ taskVal' = <<>>
  /\ IF ProbeOk(st)
       THEN /\ file_size' = ContentLength
            /\ IF UseChunked(ContentLength, c, fc, fs)
                 THEN /\ cmd' = "download_file_chunked" /\ pc' = "ranges"
                      /\ destFile' = FileOf(<<>>)
                 ELSE /\ cmd' = "download_file_single" /\ pc' = "get"
                      /\ UNCHANGED destFile
       ELSE /\ file_size' = 0
            /\ cmd' = "download_file"
            /\ pc' = IF st = "exc" THEN "crashed" ELSE "done"
            /\ UNCHANGED destFile
  /\ result' = IF ProbeOk(st) THEN "running"
               ELSE IF st = "exc" THEN "crashed" ELSE "failed"

download_file_single(st) ==
  /\ cmd = "download_file_single" /\ pc = "get"
  /\ st \in ObjectStatuses
  /\ requests' = Append(requests, Req("get", 0, <<>>, <<>>, <<>>, 0, st))
  /\ IF st = "200"
       THEN destFile' = FileOf(object.data) /\ Finish("success")
       ELSE UNCHANGED destFile /\ Finish(IF st = "exc" THEN "crashed" ELSE "failed")
  /\ UNCHANGED <<sigVars, objVars, srcFile, object, upPath, cmd, upload_id, part_info, stored>>
  /\ UNCHANGED <<runVars, seqVars, parVars>>

\* the file reopened with 'wb' for every chunk
AppendChunk_Overwrite(f, body) == body

\* output_file.write(response.content) on the file opened once with 'wb'
AppendChunk(f, body) == f \o body

\* a loop that starts the next range at the last byte it fetched
NextStart_Refetch(end_byte) == end_byte

\* start_byte = end_byte + 1
NextStart(end_byte) == end_byte + 1

\* one iteration of "while start_byte < file_size"
ChunkedGet(st) ==
  /\ cmd = "download_file_chunked" /\ pc = "ranges"
  /\ start_byte < file_size
  /\ st \in RangeStatuses
  /\ LET end_byte == EndByte(start_byte, chunk_size, file_size) IN
     /\ requests' = Append(requests,
                      Req("get", 0, <<start_byte, end_byte>>, <<>>, <<>>, 0, st))
     /\ IF st = "exc"
          THEN UNCHANGED <<destFile, start_byte>> /\ Finish("crashed")
          ELSE IF RangeOk(st)
          THEN /\ destFile' = FileOf(AppendChunk(destFile.data,
                                        ResponseBody(st, start_byte, end_byte)))
               /\ start_byte' = NextStart(end_byte)
               /\ UNCHANGED <<pc, result>>
          ELSE UNCHANGED <<destFile, start_byte>> /\ Finish("failed")
  /\ UNCHANGED <<sigVars, objVars, srcFile, object, upPath, cmd, upload_id, part_info, stored,
                 part_number, pos>>
  /\ UNCHANGED <<runVars, parVars>>

ChunkedDone ==
  /\ cmd = "download_file_chunked" /\ pc = "ranges"
  /\ ~(start_byte < file_size)
  /\ Finish("success")
  /\ UNCHANGED <<sigVars, objVars, srcFile, object, destFile, upPath, cmd, upload_id, part_info,
                 stored, requests>>
  /\ UNCHANGED <<runVars, seqVars, parVars>>

\* ------------------------------------------------------ parallel_download
\* HEAD probe, then download_file_parallel up to the submission of the chunks
parallel_download(c, w, st) ==
  /\ FreshDownload(c, w, FALSE, FALSE)
  /\ st \in ObjectStatuses
  /\ requests' = <<Req("head", 0, <<>>, <<>>, <<>>, 0, st)>>
  /\ IF ProbeOk(st)
       THEN /\ file_size' = ContentLength
            /\ cmd' = "download_file_parallel" /\ pc' = "collect"
            /\ destFile' = FileOf(Zeros(ContentLength))
            /\ chunk_count' = ChunkCount(ContentLength, c)
            /\ taskSt' = [t \in 0..(ChunkCount(ContentLength, c) - 1) |-> "queued"]
            /\ taskVal' = [t \in 0..(ChunkCount(ContentLength, c) - 1) |-> <<>>]
       ELSE /\ file_size' = 0
            /\ cmd' = "parallel_download"
            /\ pc' = IF st = "exc" THEN "crashed" ELSE "done"
            /\ chunk_count' = 0
            /\ taskSt' = <<>> /\ taskVal' = <<>>
            /\ UNCHANGED destFile
  /\ result' = IF ProbeOk(st) THEN "running"
               ELSE IF st = "exc" THEN "crashed" ELSE "failed"

ChunkRange(i) ==
  <<ChunkStart(i, chunk_size),
    EndByte(ChunkStart(i, chunk_size), chunk_size, file_size)>>

\* download_chunk up to the GET
DownloadChunkStart(i) ==
  /\ cmd = "download_file_parallel" /\ PoolAlive
  /\ CanStart(i)
  /\ taskSt' = [taskSt EXCEPT ![i] = "running"]
  /\ requests' = Append(requests, Req("get", i, ChunkRange(i), <<>>, <<>>, 0, "pending"))
  /\ UNCHANGED <<sigVars, objVars, srcFile, object, destFile, upPath, cmd, pc, result, upload_id,
                 part_info, stored, taskVal, collected>>
  /\ UNCHANGED <<runVars, seqVars>>

\* download_chunk after the GET: returns (start_byte, response.content) or None
DownloadChunkFinish(i, st) ==
  /\ cmd = "download_file_parallel" /\ PoolAlive
  /\ i \in Running
  /\ st \in RangeStatuses
  /\ requests' = SetStatus("get", i, st)
  /\ IF st # "exc" /\ RangeOk(st)
       THEN /\ taskSt' = [taskSt EXCEPT ![i] = "ok"]
            /\ taskVal' = [taskVal EXCEPT ![i] =
                   [start |-> ChunkRange(i)[1],
                    data |-> ResponseBody(st, ChunkRange(i)[1], ChunkRange(i)[2])]]
       ELSE /\ UNCHANGED taskVal
            /\ taskSt' = [taskSt EXCEPT ![i] = IF st = "exc" THEN "raised" ELSE "none"]
  /\ UNCHANGED <<sigVars, objVars, srcFile, object, destFile, upPath, cmd, pc, result, upload_id,
                 part_info, stored, collected>>
  /\ UNCHANGED <<runVars, seqVars>>

\* one iteration of "for future in as_completed(futures)"
DlCollect(i) ==
  /\ cmd = "download_file_parallel" /\ Collecting
  /\ i \in Finished \ Collected
  /\ collected' = Append(collected, i)
  /\ IF taskSt[i] = "ok"
       THEN /\ destFile' = FileOf(WriteAt(destFile.data, taskVal[i].start, taskVal[i].data))
            /\ UNCHANGED pc
       ELSE /\ UNCHANGED destFile
            /\ pc' = IF taskSt[i] = "raised" THEN "join_raise" ELSE "join_return"
  /\ UNCHANGED <<sigVars, objVars, srcFile, object, upPath, cmd, result, upload_id, part_info, stored,
                 taskSt, taskVal, requests>>
  /\ UNCHANGED <<runVars, seqVars>>

\* leaving the with-block by "return False" or by an exception
DlJoin ==
  /\ cmd = "download_file_parallel" /\ pc \in {"join_return", "join_raise"}
  /\ PoolDrained
  /\ Finish(IF pc = "join_raise" THEN "crashed" ELSE "failed")
  /\ UNCHANGED <<sigVars, objVars, srcFile, object, destFile, upPath, cmd, upload_id, part_info,
                 stored, requests>>
  /\ UNCHANGED <<runVars, seqVars, parVars>>

\* the loop ended with every chunk written: return True
DlDone ==
  /\ cmd = "download_file_parallel" /\ pc = "collect"
  /\ AllCollected
  /\ Finish("success")
  /\ UNCHANGED <<sigVars, objVars, srcFile, object, destFile, upPath, cmd, upload_id, part_info,
                 stored, requests>>
  /\ UNCHANGED <<runVars, seqVars, parVars>>

\* ------------------------------------------------------------------ Next
ChunkSizes == 1..MaxChunkSize
Workers == 1..MaxWorkers
TaskIds == 0..MaxFileSize

Next ==
  \/ \E fm \in BOOLEAN, fs \in BOOLEAN, c \in ChunkSizes : upload_file(fm, fs, c)
  \/ \E st \in Statuses : upload_file_single(st)
  \/ \E st \in Statuses, id \in UploadIds : MpInitiate(st, id)
  \/ \E st \in Statuses : MpUploadPart(st)
  \/ \E st \in Statuses : MpAbort(st)
  \/ \E st \in Statuses : MpComplete(st)
  \/ \E c \in ChunkSizes, w \in Workers : parallel_upload(c, w)
  \/ \E st \in Statuses, id \in UploadIds : ParInitiate(st, id)
  \/ \E p \in TaskIds : UploadPartStart(p)
  \/ \E p \in TaskIds, st \in Statuses : UploadPartFinish(p, st)
  \/ \E p \in TaskIds : ParCollect(p)
  \/ \E st \in Statuses : ParAbort(st)
  \/ ParJoin
  \/ \E st \in Statuses : ParComplete(st)
  \/ \E fc \in BOOLEAN, fs \in BOOLEAN, c \in ChunkSizes, st \in Statuses :
        download_file(fc, fs, c, st)
  \/ \E st \in Statuses : download_file_single(st)
  \/ \E st \in {"200", "206", "500", "exc"} : ChunkedGet(st)
  \/ ChunkedDone
  \/ \E c \in ChunkSizes, w \in Workers, st \in Statuses : parallel_download(c, w, st)
  \/ \E i \in TaskIds : DownloadChunkStart(i)
  \/ \E i \in TaskIds, st \in {"200", "206", "500", "exc"} : DownloadChunkFinish(i, st)
  \/ \E i \in TaskIds : DlCollect(i)
  \/ DlJoin
  \/ DlDone

Spec == Init /\ [][Next]_vars

\* the sequential download loop is straight-line code in the only thread of
\* the command: every request returns or raises, and the loop test is then
\* evaluated again
ChunkedStep == (\E st \in {"200", "206", "500", "exc"} : ChunkedGet(st)) \/ ChunkedDone

LiveSpec == Spec /\ WF_vars(ChunkedStep)

\* ------------------------------------------------------------ signing steps
\* a second passes on the process clock
Tick ==
  /\ clock < MaxClock
  /\ clock' = clock + 1
  /\ sent' = NoRequest
  /\ outcome' = "none"
  /\ UNCHANGED <<xferVars, objVars, profile, signArgs, signOut, signedAt, signAgain, againAt>>

\* sign_request_v4 is called with the arguments a
SignNew(a) ==
  /\ signArgs' = a
  /\ signOut' = SignResult(a)
  /\ signedAt' = clock
  /\ signAgain' = NoResult
  /\ againAt' = 0
  /\ sent' = NoRequest
  /\ outcome' = "none"
  /\ UNCHANGED <<xferVars, objVars, clock, profile>>

\* sign_request_v4 is called once more with the arguments of the latest call
SignAgain ==
  /\ signArgs # NoArgs
  /\ signAgain' = SignResult(signArgs)
  /\ againAt' = clock
  /\ sent' = NoRequest
  /\ outcome' = "none"
  /\ UNCHANGED <<xferVars, objVars, clock, profile, signArgs, signOut, signedAt>>

\* make_s3_request(call.method, call.bucket, call.key, profile, ...)
make_s3_request(call) ==
  LET url == RequestUrl(profile, call.bucket, call.key, call.params)
      headers == StandardHeaders(CallerHeaders(call), url, call.data, clock)
      args == [method |-> call.method, url |-> url, region |-> RegionOf(profile),
               service |-> S3, headers |-> headers, data |-> call.data,
               access_key |-> ProfileEntry(profile, AccessKeyId),
               secret_key |-> ProfileEntry(profile, SecretAccessKey)]
      auth_header == SignResult(args)
      request == [method |-> call.method, url |-> url, data |-> call.data,
                  headers |-> DictSet(headers, Authorization, auth_header.auth),
                  call |-> call]
  IN  IF ProfileRaises(profile)
      THEN /\ outcome' = "KeyError"
           /\ sent' = NoRequest
           /\ UNCHANGED <<xferVars, objVars, clock, profile, signArgs, signOut, signedAt,
                          signAgain, againAt>>
      ELSE /\ outcome' = "sent"
           /\ sent' = request
           /\ signArgs' = args
           /\ signOut' = auth_header
           /\ signedAt' = clock
           /\ signAgain' = NoResult
           /\ againAt' = 0
           /\ UNCHANGED <<xferVars, objVars, clock, profile>>

\* the signing layer alone: no transfer runs, and any profile may be loaded
SignInit == XferInit({<<>>}, {NoFile}) /\ SigIdle /\ profile \in Profiles /\ ObjIdle

SignNext ==
  \/ Tick
  \/ \E a \in SignInputs : SignNew(a)
  \/ SignAgain
  \/ \E call \in CommandCalls : make_s3_request(call)

SignSpec == SignInit /\ [][SignNext]_vars



\* ------------------------------------------------------------- move_file
\* the rest of the transfer state, which move_file and the search leave alone
xferRest == <<srcFile, object, destFile, upPath, upload_id, part_info, stored,
              runVars, seqVars, parVars>>

MvBuckets == {"b1", "b2"}
MvKeys == {"k1", "k2"}
Contents == {"old", "new"}
Absent == "absent"
ObjectPaths == MvBuckets \X MvKeys

\* args.source_bucket when --source-bucket is not given
NoBucket == ""

MoveArgSets == [bucket : MvBuckets, dest_key : MvKeys,
                source_bucket : MvBuckets \cup {NoBucket}, source_key : MvKeys]

\* source_bucket = args.source_bucket if args.source_bucket else args.bucket
SourceOf(a) == <<IF a.source_bucket # NoBucket THEN a.source_bucket ELSE a.bucket,
                 a.source_key>>

\* the object the copy PUT is addressed to
DestOf(a) == <<a.bucket, a.dest_key>>

MoveReq(op, target, copy_source, status) ==
  [op |-> op, target |-> target, copy_source |-> copy_source, status |-> status]

\* what the service answers to a copy: 200 only if the source object exists
CopyStatuses(src) == IF store[src] # Absent THEN {"200", "500", "exc"} ELSE {"404", "exc"}
DeleteStatuses == {"200", "204", "500", "exc"}

\* the object store after a request: a request answered with a success status
\* took effect, one answered with an error status did not, and one whose
\* connection broke may or may not have been carried out
Effects(st, ok, after) ==
  IF st \in ok THEN {after} ELSE IF st = "exc" THEN {store, after} ELSE {store}

\* a copy taken as done unless the call raised
CopyOk_Unchecked(st) == st # "exc"

\* "if copy_response.status_code != 200: return"
CopyOk(st) == st = "200"

\* "if delete_response.status_code in (200, 204)"
DeleteOk(st) == st \in {"200", "204"}

\* move_file up to and including the test of the copy response
move_file(st) ==
  /\ cmd = "none"
  /\ st \in CopyStatuses(SourceOf(moveArgs))
  /\ cmd' = "move_file"
  /\ requests' = <<MoveReq("copy", DestOf(moveArgs), SourceOf(moveArgs), st)>>
  /\ store' \in Effects(st, {"200"},
                 IF store[SourceOf(moveArgs)] = Absent THEN store
                 ELSE [store EXCEPT ![DestOf(moveArgs)] = store[SourceOf(moveArgs)]])
  /\ IF st = "exc" THEN Finish("crashed")
     ELSE IF CopyOk(st) THEN pc' = "delete" /\ result' = "running"
     ELSE Finish("failed")
  /\ UNCHANGED <<sigVars, xferRest, moveArgs, searchArgs, searchParams,
                 continuation_token, matches, displayed>>

\* the DELETE of the original and the report that follows it
MoveDelete(st) ==
  /\ cmd = "move_file" /\ pc = "delete"
  /\ requests' = Append(requests, MoveReq("delete", SourceOf(moveArgs), <<>>, st))
  /\ store' \in Effects(st, {"200", "204"},
                        [store EXCEPT ![SourceOf(moveArgs)] = Absent])
  /\ Finish(IF st = "exc" THEN "crashed"
            ELSE IF DeleteOk(st) THEN "success" ELSE "copied_not_deleted")
  /\ UNCHANGED <<sigVars, xferRest, cmd, moveArgs, searchArgs, searchParams,
                 continuation_token, matches, displayed>>

MoveInit ==
  /\ XferInit({<<>>}, {NoFile}) /\ SigIdle /\ profile = FullProfile
  /\ store \in [ObjectPaths -> Contents \cup {Absent}]
  /\ moveArgs \in MoveArgSets
  /\ searchArgs = <<>>
  /\ searchParams = <<>>
  /\ continuation_token = ""
  /\ matches = <<>>
  /\ displayed = <<>>

MoveNext ==
  \/ \E st \in {"200", "404", "500", "exc"} : move_file(st)
  \/ \E st \in DeleteStatuses : MoveDelete(st)

MoveSpec == MoveInit /\ [][MoveNext]_vars

\* ------------------------------------------------ search_files_paginated
MaxPages == 3
MaxPageKeys == 2
MaxResults == 2

\* keys the bucket may list, and the pattern searched for
ListedKeys == {<<"A">>, <<"b">>}
Patterns == {<<"a">>}
Tokens == {"t1", "t2"}

\* continuation_token = None; also a page without a NextContinuationToken
NoToken == ""

\* --max-results: not given (None) or an int
NoLimit == <<>>
MaxResultsArgs == {NoLimit} \cup {<<n>> : n \in 0..MaxResults}

SearchArgSets == [pattern : Patterns, prefix : {"", "logs/"}, page_size : {"1000"},
                  max_results : MaxResultsArgs]

\* the Contents of a page, in document order
PagesOfLen(n) == [1..n -> ListedKeys]
PageKeys == UNION {PagesOfLen(n) : n \in 0..MaxPageKeys}

\* a limit that is passed before the search stops
LimitReached_Over(m, found) == m # NoLimit /\ m[1] # 0 /\ Len(found) > m[1]

\* "args.max_results and len(matches) >= args.max_results"
LimitReached(m, found) == m # NoLimit /\ m[1] # 0 /\ Len(found) >= m[1]

\* p in k, for two str
Contains(p, k) == \E i \in 0..(Len(k) - Len(p)) : SubSeq(k, i + 1, i + Len(p)) = p

\* match_func without --regex: args.pattern.lower() in key.lower()
match_func(a, key) == Contains(Lower(a.pattern), Lower(key))

\* the for loop over the Contents of one page, with its break
RECURSIVE ScanPage(_, _, _)
ScanPage(a, found, keys) ==
  IF keys = <<>> THEN found
  ELSE IF match_func(a, Head(keys))
    THEN IF LimitReached(a.max_results, Append(found, Head(keys)))
           THEN Append(found, Head(keys))
           ELSE ScanPage(a, Append(found, Head(keys)), Tail(keys))
    ELSE ScanPage(a, found, Tail(keys))

\* params = {'max-keys': str(args.page_size)}, plus the prefix if one is given
InitialParams(a) ==
  IF a.prefix # "" THEN <<<<"max-keys", a.page_size>>, <<"prefix", a.prefix>>>>
  ELSE <<<<"max-keys", a.page_size>>>>

\* "if continuation_token: params['continuation-token'] = continuation_token"
ParamsWithToken(p, token) ==
  IF token # NoToken THEN DictSet(p, "continuation-token", token) ELSE p

ListReq(p, status, truncated, token) ==
  [op |-> "list", params |-> p, status |-> status, IsTruncated |-> truncated,
   NextContinuationToken |-> token]

\* the function up to the loop
search_files_paginated ==
  /\ cmd = "none"
  /\ cmd' = "search_files_paginated"
  /\ pc' = "page"
  /\ result' = "running"
  /\ requests' = <<>>
  /\ searchParams' = InitialParams(searchArgs)
  /\ continuation_token' = NoToken
  /\ matches' = <<>>
  /\ UNCHANGED <<sigVars, xferRest, store, moveArgs, searchArgs, displayed>>

\* one iteration of "while True": the request, the scan of the page, the
\* tests that leave the loop, and the display that follows the loop
SearchPage(st, keys, truncated, token) ==
  /\ cmd = "search_files_paginated" /\ pc = "page"
  /\ Len(requests) < MaxPages
  /\ st # "200" => (keys = <<>> /\ ~truncated /\ token = NoToken)
  /\ searchParams' = ParamsWithToken(searchParams, continuation_token)
  /\ requests' = Append(requests,
        ListReq(ParamsWithToken(searchParams, continuation_token), st, truncated, token))
  /\ IF st # "200"
       THEN /\ Finish(IF st = "exc" THEN "crashed" ELSE "failed")
            /\ UNCHANGED <<matches, continuation_token, displayed>>
       ELSE /\ matches' = ScanPage(searchArgs, matches, keys)
            /\ IF \/ LimitReached(searchArgs.max_results, matches')
                  \/ ~truncated
                  \/ token = NoToken
                 THEN /\ displayed' = <<matches'>>
                      /\ Finish("success")
                      /\ UNCHANGED continuation_token
                 ELSE /\ continuation_token' = token
                      /\ UNCHANGED <<pc, result, displayed>>
  /\ UNCHANGED <<sigVars, xferRest, cmd, store, moveArgs, searchArgs>>

SearchInit ==
  /\ XferInit({<<>>}, {NoFile}) /\ SigIdle /\ profile = FullProfile
  /\ store = <<>>
  /\ moveArgs = <<>>
  /\ searchArgs \in SearchArgSets
  /\ searchParams = <<>>
  /\ continuation_token = NoToken
  /\ matches = <<>>
  /\ displayed = <<>>

SearchNext ==
  \/ search_files_paginated
  \/ \E st \in Statuses, keys \in PageKeys, truncated \in BOOLEAN,
        token \in Tokens \cup {NoToken} : SearchPage(st, keys, truncated, token)

SearchSpec == SearchInit /\ [][SearchNext]_vars

\* ============================================================ properties
ReqsOf(op) == {k \in 1..Len(requests) : requests[k].op = op}
CountOp(op) == Cardinality(ReqsOf(op))

MultipartRun == cmd \in {"upload_file_multipart", "upload_file_parallel"}
RunEnded == pc \in Terminal

\* some part PUT of the run was answered with a non-200 status
PartFailed == \E k \in ReqsOf("part") : requests[k].status = "500"

\* ceil(s / c), by its definition: the least n with n * c >= s
CeilDiv(s, c) == CHOOSE n \in 0..s : n * c >= s /\ \A m \in 0..(n - 1) : m * c < s

PartNumbers(doc) == [i \in 1..Len(doc) |-> doc[i].PartNumber]

\* C1: in every multipart upload run (sequential and parallel) in which at
\* least one part PUT returned a non-200 status, exactly one abort call and no
\* completion POST has been issued when the run ends.
C1_FailureTriggersAbort ==
  (MultipartRun /\ RunEnded /\ PartFailed)
     => (CountOp("abort") = 1 /\ CountOp("complete") = 0)

\* C2: in a parallel multipart upload whose parts all succeed, whatever the
\* order in which the results were collected, the completion document lists the
\* parts as 1, 2, ..., N: strictly ascending, no duplicates.
C2_CompletionAscending ==
  cmd = "upload_file_parallel" =>
    \A k \in ReqsOf("complete") :
       /\ PartNumbers(requests[k].doc) = [i \in 1..chunk_count |-> i]
       /\ \A i, j \in 1..Len(requests[k].doc) :
             i < j => requests[k].doc[i].PartNumber < requests[k].doc[j].PartNumber

\* a parallel upload completed although the results arrived out of order
C2_Witness ==
  /\ cmd = "upload_file_parallel"
  /\ CountOp("complete") = 1
  /\ chunk_count >= 2
  /\ \E i, j \in 1..Len(collected) : i < j /\ collected[i] > collected[j]


\* ---------------------------------------------------------------- C3
RangedRun == cmd \in {"download_file_chunked", "download_file_parallel"}

RangeReqs == {k \in ReqsOf("get") : requests[k].range # <<>>}
RequestedRanges == {requests[k].range : k \in RangeReqs}

\* the service honoured every Range header of the run: no ranged GET was
\* answered with status 200 and the whole object
ExactRanges == \A k \in RangeReqs : requests[k].status # "200"

\* the ranges [i*C, min((i+1)*C-1, S-1)], i = 0..ceil(S/C)-1
ExpectedRanges(s, c) ==
  {<<i * c, Min((i + 1) * c - 1, s - 1)>> : i \in 0..(CeilDiv(s, c) - 1)}

\* C3: for object size S > 0 and chunk size C > 0 the byte ranges a ranged
\* download requests (sequential loop and parallel per-index computation) are
\* ranges [i*C, min((i+1)*C-1, S-1)], none requested twice; once all are
\* requested they are exactly the ceil(S/C) such ranges, pairwise disjoint,
\* each at most C long, and every byte of [0, S-1] lies in exactly one.
C3_ChunkCoverage ==
  (RangedRun /\ file_size > 0) =>
     /\ RequestedRanges \subseteq ExpectedRanges(file_size, chunk_size)
     /\ Cardinality(RangeReqs) = Cardinality(RequestedRanges)
     /\ \A r \in RequestedRanges :
           0 <= r[1] /\ r[1] <= r[2] /\ r[2] <= file_size - 1
           /\ r[2] - r[1] + 1 <= chunk_size
     /\ \A r1, r2 \in RequestedRanges : r1 # r2 => (r1[2] < r2[1] \/ r2[2] < r1[1])
     /\ (result = "success" \/ (cmd = "download_file_parallel" /\ RunEnded)) =>
           /\ Cardinality(RequestedRanges) = CeilDiv(file_size, chunk_size)
           /\ \A b \in 0..(file_size - 1) :
                 Cardinality({r \in RequestedRanges : r[1] <= b /\ b <= r[2]}) = 1

\* a ranged download of several chunks, the last one shorter, ran to success
C3_Witness ==
  /\ cmd = "download_file_chunked"
  /\ result = "success"
  /\ file_size = 3 /\ chunk_size = 2
  /\ RequestedRanges = {<<0, 1>>, <<2, 2>>}

\* ---------------------------------------------------------------- C4
\* C4: a completion POST is issued only after every planned part 1..N has
\* returned status 200, and the document it carries has exactly one entry for
\* each part number 1..N.
C4_CompleteAfterAllParts ==
  MultipartRun =>
    \A k \in ReqsOf("complete") :
       LET n == CeilDiv(file_size, chunk_size) IN
       /\ \A p \in 1..n : \E j \in 1..(k - 1) :
             requests[j].op = "part" /\ requests[j].n = p /\ requests[j].status = "200"
       /\ Len(requests[k].doc) = n
       /\ \A p \in 1..n :
             Cardinality({i \in 1..n : requests[k].doc[i].PartNumber = p}) = 1

\* a completion was issued for an upload of three parts
C4_Witness ==
  /\ MultipartRun
  /\ CountOp("complete") = 1
  /\ CeilDiv(file_size, chunk_size) = 3
  /\ CountOp("part") = 3

\* ---------------------------------------------------------------- C5
\* C5: every multipart upload run that obtained an upload id ends having
\* issued exactly one terminal call: one completion POST or one abort DELETE,
\* never both and never neither.
C5_ExactlyOneTerminalCall ==
  (MultipartRun /\ RunEnded /\ upload_id # 0)
     => CountOp("abort") + CountOp("complete") = 1

\* ---------------------------------------------------------------- C6
AllPartsUploaded ==
  \A p \in 1..CeilDiv(file_size, chunk_size) :
     \E k \in ReqsOf("part") : requests[k].n = p /\ requests[k].status = "200"

\* C6: when a multipart upload run ends without a successful completion, after
\* a non-2xx status or a transport error of any call, either no session was
\* created, or an abort call was issued, or every part was uploaded and only
\* the completion call failed.
C6_FailedRunWellDefined ==
  (MultipartRun /\ RunEnded /\ result # "success") =>
     \/ upload_id = 0
     \/ CountOp("abort") >= 1
     \/ (AllPartsUploaded /\ \E k \in ReqsOf("complete") : requests[k].status # "200")


\* ---------------------------------------------------------------- C7
\* C7: round trip.  A non-empty file uploaded by the single-shot or by the
\* multipart path and then downloaded by the single-shot or by the ranged path
\* (the service storing what it receives, assembling parts by ascending part
\* number and serving exactly the requested range) yields a destination file
\* identical to the source, in all four combinations.
C7_RoundTrip ==
  (/\ cmd \in {"download_file_single", "download_file_chunked"}
   /\ result = "success"
   /\ upPath \in {"single", "multipart"}
   /\ ExactRanges
   /\ Len(srcFile) > 0)
     => destFile = FileOf(srcFile)

\* a three-byte file went up in two parts and came back in two ranges
C7_Witness ==
  /\ cmd = "download_file_chunked"
  /\ result = "success"
  /\ upPath = "multipart"
  /\ Len(srcFile) = 3
  /\ chunk_size = 2
  /\ ExactRanges
  /\ ~force_chunked
  /\ CountOp("get") = 2
  /\ destFile = FileOf(srcFile)

\* ---------------------------------------------------------------- C8
\* the file bytes [(p-1)*C, min(p*C, S)-1] (0-based offsets), as a sequence
PartBytes(p) == SubSeq(srcFile, (p - 1) * chunk_size + 1, Min(p * chunk_size, file_size))

\* C8: for file size S > 0 and chunk size C > 0 every part PUT of a multipart
\* upload (sequential or parallel) carries the bytes [(i-1)*C, min(i*C, S)-1]
\* of its part number i; a successful upload has sent exactly N = ceil(S/C)
\* parts numbered 1..N, each C bytes long except possibly the last, and its
\* completion document has N entries in the order 1..N.
C8_PartsPlan ==
  (MultipartRun /\ file_size > 0) =>
     LET n == CeilDiv(file_size, chunk_size) IN
     /\ \A k \in ReqsOf("part") :
           /\ requests[k].n \in 1..n
           /\ requests[k].data = PartBytes(requests[k].n)
           /\ Len(requests[k].data) =
                 IF requests[k].n < n THEN chunk_size
                 ELSE file_size - (n - 1) * chunk_size
     /\ result = "success" =>
           /\ CountOp("part") = n
           /\ {requests[k].n : k \in ReqsOf("part")} = 1..n
           /\ \A k \in ReqsOf("complete") :
                 PartNumbers(requests[k].doc) = [i \in 1..n |-> i]

\* a three-byte file uploaded in parallel with chunk size two: parts of 2 and 1
C8_Witness ==
  /\ cmd = "upload_file_parallel"
  /\ result = "success"
  /\ file_size = 3 /\ chunk_size = 2
  /\ \E k \in ReqsOf("part") : requests[k].n = 1 /\ requests[k].data = <<1, 2>>
  /\ \E k \in ReqsOf("part") : requests[k].n = 2 /\ requests[k].data = <<3>>

\* ---------------------------------------------------------------- C9
\* C9: the chunk count of a chunked transfer is at least 1 for every object
\* size, size 0 included: a parallel upload or download plans at least one
\* chunk, and a completed multipart upload has uploaded at least one part.
C9_ChunkCountAtLeastOne ==
  /\ (cmd = "upload_file_parallel" /\ upload_id # 0) => chunk_count >= 1
  /\ cmd = "download_file_parallel" => chunk_count >= 1
  /\ (cmd = "upload_file_multipart" /\ CountOp("complete") > 0) => CountOp("part") >= 1

\* --------------------------------------------------------------- C10
\* the HEAD probe returned 200 with Content-Length 0
ZeroByteDownload ==
  /\ cmd \in {"download_file_single", "download_file_chunked", "download_file_parallel"}
  /\ file_size = 0

\* C10 as stated: a download of a 0-byte object, by any path, ends with the
\* destination file created and empty and without any request carrying Range.
C10_ZeroByteAsStated ==
  (ZeroByteDownload /\ RunEnded) => (destFile = FileOf(<<>>) /\ RangeReqs = {})

\* C10 amended: a download of a 0-byte object never sends a Range header; the
\* chunked and parallel paths create the empty destination file and send no
\* GET at all; the single-shot path sends one GET and creates the empty file
\* when that GET returns 200, and creates no file when it does not (the path is
\* left as it was).
C10_ZeroByteDownload ==
  ZeroByteDownload =>
     /\ RangeReqs = {}
     /\ cmd \in {"download_file_chunked", "download_file_parallel"} =>
           (destFile = FileOf(<<>>) /\ CountOp("get") = 0)
     /\ (cmd = "download_file_single" /\ RunEnded) =>
           /\ CountOp("get") = 1
           /\ \A k \in ReqsOf("get") :
                 IF requests[k].status = "200" THEN destFile = FileOf(<<>>)
                 ELSE destFile \in DestPaths

\* the single-shot download of an empty object succeeded
C10_Witness ==
  /\ ZeroByteDownload
  /\ cmd = "download_file_single"
  /\ result = "success"
  /\ destFile = FileOf(<<>>)


\* ---------------------------------------------------------------- C11
\* the run went through the decision of upload_file or download_file
Decided == cmd \in {"upload_file_single", "upload_file_multipart",
                    "download_file_single", "download_file_chunked"}
SingleShot == cmd \in {"upload_file_single", "download_file_single"}

\* C11 as stated: single-shot exactly when size <= chunk size and no force
\* flag is set; the chunked path in every other case.
C11_DecisionAsStated ==
  Decided =>
    (SingleShot <=> (file_size <= chunk_size /\ ~force_chunked /\ ~force_single))

\* C11: the transfer decision of upload_file and download_file.  The
\* single-shot path is taken exactly when force-single is set, or when the
\* size is at most the chunk size and the force-multipart / force-chunked
\* flag is not set; the chunked path in every other case.
C11_TransferDecision ==
  Decided =>
    (SingleShot <=> (force_single \/ (file_size <= chunk_size /\ ~force_chunked)))

\* force-single sends a file larger than the chunk size down the single path,
\* against the other force flag
C11_Witness ==
  /\ SingleShot
  /\ force_single /\ force_chunked
  /\ file_size > chunk_size


\* ---------------------------------------------------------------- C12
InitiateRefused == \E k \in ReqsOf("initiate") : requests[k].status = "500"

\* C12: when the initiate call of a multipart upload (sequential or parallel)
\* returns a non-200 status the job ends there: the initiate POST is the only
\* request of the run, so no part PUT, no abort DELETE and no completion POST
\* follows it, and the run has ended as failed without a session.
C12_InitiateFailureIsFinal ==
  (MultipartRun /\ InitiateRefused) =>
     /\ Len(requests) = 1
     /\ CountOp("part") = 0 /\ CountOp("abort") = 0 /\ CountOp("complete") = 0
     /\ upload_id = 0
     /\ pc = "done" /\ result = "failed"

\* a parallel upload of several parts whose initiate call was refused
C12_Witness ==
  /\ cmd = "upload_file_parallel"
  /\ InitiateRefused
  /\ file_size > chunk_size
  /\ pc = "done"


\* ---------------------------------------------------------------- C13
CompletionRefused == \E k \in ReqsOf("complete") : requests[k].status = "500"

\* C13: when every part succeeded and the completion POST returns a non-200
\* status, the run reports failure and the completion POST is its last call:
\* there is no abort DELETE and no second completion attempt, no object is
\* created, and the session keeps every part on the service.
C13_CompletionFailureIsFinal ==
  (MultipartRun /\ CompletionRefused) =>
     /\ requests[Len(requests)].op = "complete"
     /\ CountOp("complete") = 1 /\ CountOp("abort") = 0
     /\ pc = "done" /\ result = "failed"
     /\ AllPartsUploaded
     /\ DOMAIN stored = 1..CeilDiv(file_size, chunk_size)
     /\ ~object.exists

\* a sequential upload of two parts whose completion was refused
C13_Witness ==
  /\ cmd = "upload_file_multipart"
  /\ CompletionRefused
  /\ CountOp("part") = 2
  /\ pc = "done"


\* ---------------------------------------------------------------- C14
ParallelRun == cmd \in {"upload_file_parallel", "download_file_parallel"}

\* the as_completed loop has been handed a chunk whose result is None
FailureRecorded ==
  /\ ParallelRun
  /\ \E k \in 1..Len(collected) : taskSt[collected[k]] = "none"

\* C14: in a parallel upload or download, once the orchestrator has observed
\* the first failed chunk no chunk operation that had not yet started is
\* started afterwards: every queued chunk stays queued (so no part PUT begins
\* after the abort call).
C14_NoStartAfterFailure ==
  [][(FailureRecorded /\ ~RunEnded) =>
        \A t \in Tasks : taskSt[t] = "queued" => taskSt'[t] = "queued"]_vars


\* ---------------------------------------------------------------- C15
\* C15: in a parallel transfer, once a failure has been recorded the results of
\* chunks that finish later are discarded: nothing more is taken from the
\* pool, no chunk data is written to the destination file, no part result is
\* appended to the part list, no completion document is sent, and the run does
\* not succeed (a parallel download returns False).
C15_LateResultsDiscarded ==
  /\ [](FailureRecorded =>
          /\ CountOp("complete") = 0
          /\ result # "success"
          /\ (cmd = "download_file_parallel" /\ RunEnded) => result = "failed")
  /\ [][(FailureRecorded /\ ~RunEnded) =>
          UNCHANGED <<part_info, destFile, collected>>]_vars

\* a parallel download returned False while a chunk that was fetched
\* successfully was never taken from the pool
C15_Witness ==
  /\ cmd = "download_file_parallel"
  /\ FailureRecorded
  /\ result = "failed"
  /\ \E t \in Tasks : taskSt[t] = "ok" /\ t \notin Collected


\* ---------------------------------------------------------------- C16
\* requests sent and not yet answered
InFlight == {k \in 1..Len(requests) : requests[k].status = "pending"}

\* the network calls made so far by chunk task t
CallsOf(t) ==
  {k \in 1..Len(requests) : requests[k].op \in {"part", "get"} /\ requests[k].n = t}

\* C16: during a parallel upload or download with worker limit W, at most W
\* chunk network calls are in flight at any moment, and each chunk task makes
\* exactly one network call: none while it is queued, one once it has started.
C16_BoundedConcurrency ==
  (ParallelRun /\ pc # "initiate") =>
     /\ Cardinality(Running) <= max_workers
     /\ Cardinality(InFlight) <= max_workers
     /\ \A t \in Tasks :
          Cardinality(CallsOf(t)) = IF taskSt[t] = "queued" THEN 0 ELSE 1

\* both workers are busy while a third chunk waits
C16_Witness ==
  /\ ParallelRun
  /\ max_workers = 2
  /\ Cardinality(InFlight) = 2
  /\ Queued # {}


\* ---------------------------------------------------------------- C17
\* C17: in a parallel download, for every response with status 200 or 206 the
\* bytes of chunk i are written only inside chunk i's own byte range
\* [i*C, min((i+1)*C-1, S-1)], so the regions written for two chunks never
\* overlap and no write extends past offset S-1.
C17_WritesInsideOwnRange ==
  cmd = "download_file_parallel" =>
     /\ \A i \in Collected :
          taskSt[i] = "ok" =>
             /\ taskVal[i].start = ChunkRange(i)[1]
             /\ taskVal[i].start + Len(taskVal[i].data) - 1 <= ChunkRange(i)[2]
     /\ Len(destFile.data) <= file_size


\* ---------------------------------------------------------------- C18
\* C18: a parallel download reports success only after all N = ceil(S/C)
\* chunks have been fetched and written; when every range fetch returned
\* exactly the requested bytes, the destination file then equals the object's
\* bytes [0, S-1], whatever the order in which the chunks arrived.
C18_OrderIndependent ==
  (cmd = "download_file_parallel" /\ result = "success") =>
     /\ chunk_count = CeilDiv(file_size, chunk_size)
     /\ Len(collected) = chunk_count
     /\ Collected = 0..(chunk_count - 1)
     /\ \A t \in Tasks : taskSt[t] = "ok"
     /\ ExactRanges => destFile = FileOf(object.data)

\* three chunks arrived last-first and the file is the object
C18_Witness ==
  /\ cmd = "download_file_parallel"
  /\ result = "success"
  /\ ExactRanges
  /\ collected = <<2, 1, 0>>
  /\ destFile = FileOf(object.data)


\* ---------------------------------------------------------------- C19
\* the bodies of the ranged GETs number 2..n of the log (entry 1 is the HEAD),
\* in the order of the requests
RECURSIVE BodiesUpTo(_)
BodiesUpTo(n) ==
  IF n < 2 THEN <<>>
  ELSE BodiesUpTo(n - 1) \o
       ResponseBody(requests[n].status, requests[n].range[1], requests[n].range[2])

RangeRefused == \E k \in RangeReqs : requests[k].status = "500"

\* C19: in a sequential ranged download, when the fetch of range k returns a
\* status outside {200, 206} the download fails as a whole: that fetch is the
\* last request of the run, success is not reported, and the destination file
\* is left on disk holding exactly the bodies of the ranges before k, in order.
C19_RangeFailureIsFinal ==
  (cmd = "download_file_chunked" /\ RangeRefused) =>
     /\ requests[Len(requests)].status = "500"
     /\ \A k \in RangeReqs : k < Len(requests) => requests[k].status \in {"200", "206"}
     /\ pc = "done" /\ result = "failed"
     /\ destFile.exists
     /\ destFile.data = BodiesUpTo(Len(requests) - 1)

\* the second of three ranges was refused and the first is on disk
C19_Witness ==
  /\ cmd = "download_file_chunked"
  /\ RangeRefused
  /\ Len(requests) = 3
  /\ file_size = 3 /\ chunk_size = 1
  /\ destFile = FileOf(<<1>>)


\* ---------------------------------------------------------------- C20
\* entries k < j of the log that repeat a call of the run
SameCall(k, j) ==
  /\ requests[k].op = requests[j].op
  /\ requests[k].n = requests[j].n
  /\ requests[k].range = requests[j].range

\* C20: there are no retries.  Every step of a run sends at most one HTTP
\* request and never re-sends an earlier one, and within one run each part
\* number is PUT at most once, each byte range is fetched at most once, and the
\* HEAD, initiate, completion and abort calls are each issued at most once.
C20_NoRetries ==
  /\ [](\A k \in 1..Len(requests), j \in 1..Len(requests) :
           k < j => ~SameCall(k, j))
  /\ [][\/ Len(requests') <= 1
        \/ /\ Len(requests') \in {Len(requests), Len(requests) + 1}
           /\ \A k \in 1..Len(requests) :
                 /\ requests'[k].op = requests[k].op
                 /\ requests'[k].n = requests[k].n
                 /\ requests'[k].range = requests[k].range]_vars

\* a parallel upload failed with both of its parts refused, each PUT once
C20_Witness ==
  /\ cmd = "upload_file_parallel"
  /\ RunEnded
  /\ CountOp("part") = 2
  /\ \A k \in ReqsOf("part") : requests[k].status = "500"
  /\ CountOp("abort") = 1


\* ---------------------------------------------------------------- C24
\* a step of a pool worker: the state of one submitted future changes
WorkerStep == DOMAIN taskSt' = DOMAIN taskSt /\ taskSt' # taskSt

\* a step of the orchestrator's loop: one more future is taken from as_completed
CollectStep == \E p \in Tasks : collected' = Append(collected, p)

\* C24: in a parallel multipart upload the part list is written only by the
\* orchestrator thread that collects worker results.  A worker step leaves the
\* part list, the upload id and the collected results as they are and only
\* returns its own {PartNumber, ETag} result or a failure marker; the part
\* list grows only in a collecting step, by the result the worker returned.
C24_OnlyOrchestratorAppends ==
  [][(cmd = "upload_file_parallel" /\ cmd' = cmd) =>
        /\ WorkerStep =>
              /\ part_info' = part_info
              /\ upload_id' = upload_id
              /\ collected' = collected
              /\ \A p \in Tasks :
                    (taskSt'[p] = "ok" /\ taskSt[p] # "ok") =>
                       (taskVal'[p].PartNumber = p /\ DOMAIN taskVal'[p] = {"PartNumber", "ETag"})
        /\ (part_info' # part_info /\ pc' = "collect") =>
              /\ taskSt' = taskSt
              /\ CollectStep
              /\ \E p \in Tasks : part_info' = Append(part_info, taskVal[p])]_vars

\* both workers have returned their results and the part list is still empty
C24_Witness ==
  /\ cmd = "upload_file_parallel"
  /\ pc = "collect"
  /\ Cardinality({p \in Tasks : taskSt[p] = "ok"}) = 2
  /\ part_info = <<>>
  /\ collected = <<>>


\* ---------------------------------------------------------------- C25
SessionReqs == ReqsOf("part") \cup ReqsOf("abort") \cup ReqsOf("complete")

\* C25: every multipart upload run follows the session's state machine.  A
\* part PUT, an abort or a completion is issued only after the initiate call,
\* the first request of the run, has returned status 200 with an upload id,
\* each of them carries exactly that upload id, and the id of the session does
\* not change after the initiate call.
C25_SessionStateMachine ==
  /\ [](MultipartRun =>
          /\ \A k \in ReqsOf("initiate") : k = 1
          /\ upload_id # 0 =>
                (requests # <<>> /\ requests[1].op = "initiate" /\ requests[1].status = "200")
          /\ \A k \in SessionReqs :
                /\ k > 1
                /\ requests[1].op = "initiate" /\ requests[1].status = "200"
                /\ upload_id \in UploadIds
                /\ requests[k].uploadId = upload_id)
  /\ [][(MultipartRun /\ cmd' = cmd /\ upload_id' # upload_id) =>
          (upload_id = 0 /\ requests = <<>> /\ Len(requests') = 1)]_vars

\* a sequential upload under the second upload id sent its parts and completed
C25_Witness ==
  /\ cmd = "upload_file_multipart"
  /\ upload_id = 2
  /\ CountOp("part") = 2
  /\ CountOp("complete") = 1
  /\ result = "success"


\* ---------------------------------------------------------------- C26
\* C26: in a parallel download the destination file exists with exactly the
\* final size S before any range GET is dispatched, and while every fetch
\* returns exactly its requested range the file length stays exactly S, up
\* to and including the end of the run.
C26_Preallocated ==
  cmd = "download_file_parallel" =>
     /\ destFile.exists
     /\ RangeReqs = {} => destFile = FileOf([i \in 1..file_size |-> 0])
     /\ ExactRanges => Len(destFile.data) = file_size

\* a three-byte object came down in three exact ranges
C26_Witness ==
  /\ cmd = "download_file_parallel"
  /\ result = "success"
  /\ ExactRanges
  /\ file_size = 3 /\ chunk_count = 3
  /\ Len(destFile.data) = 3


\* ---------------------------------------------------------------- C27
\* C27: in the completion document of a multipart upload (sequential or
\* parallel, any completion order) every part number is that of a part PUT of
\* the run, and the ETag listed for part number p is the ETag returned in the
\* response to the PUT of part p.
C27_ETagOfItsPart ==
  MultipartRun =>
     \A k \in ReqsOf("complete") :
        \A i \in 1..Len(requests[k].doc) :
           \E j \in ReqsOf("part") :
              /\ requests[j].n = requests[k].doc[i].PartNumber
              /\ requests[j].status = "200"
              /\ requests[k].doc[i].ETag = ETagOf(requests[j].n, requests[j].data)

\* a parallel upload whose parts were collected last-first sent its completion
C27_Witness ==
  /\ cmd = "upload_file_parallel"
  /\ CountOp("complete") = 1
  /\ collected = <<3, 2, 1>>


Signed == signArgs # NoArgs /\ signOut.err = "none"

\* the canonical request that call signed: the input of the digest in the
\* string to sign
SignedCanon == signOut.auth.Signature.msg[4].sha256
SignedQuery == SignedCanon[3]

\* the tokens of a URL's query string
TokensOf(url) == IF UrlQuery(url) = <<>> THEN <<>> ELSE Split(UrlQuery(url), "&")

\* two URLs that differ in the order of their query tokens only
Permuted(u, v) ==
  LET s == TokensOf(u)
      t == TokensOf(v)
  IN  /\ UrlNetloc(u) = UrlNetloc(v)
      /\ UrlPath(u) = UrlPath(v)
      /\ Len(s) = Len(t)
      /\ \A x \in {s[i] : i \in 1..Len(s)} \cup {t[i] : i \in 1..Len(t)} :
           Cardinality({i \in 1..Len(s) : s[i] = x}) =
           Cardinality({i \in 1..Len(t) : t[i] = x})

\* C22: the canonical query string of a URL does not depend on the order of
\* its parameters: two calls whose URLs differ in that order only sign the same
\* canonical query string.
C22_OrderIndependent ==
  [][(Signed /\ Signed' /\ Permuted(signArgs.url, signArgs'.url))
       => SignedQuery' = SignedQuery]_vars


\* the loaded profile has no access key id or no secret key
LacksCredentials ==
  \/ \A i \in 1..Len(profile) : profile[i][1] # AccessKeyId
  \/ \A i \in 1..Len(profile) : profile[i][1] # SecretAccessKey

\* no header of h is named x-amz-date, in any case
NoDateHeader(h) == \A i \in 1..Len(h) : Lower(h[i][1]) # XAmzDate

\* C23: configuration errors are fatal before the network: with a profile that
\* lacks the access key id or the secret key make_s3_request raises and hands no
\* request to the HTTP library, and sign_request_v4 raises, returning no
\* authorization value, when its headers have no x-amz-date entry.
C23_ConfigurationErrorsFatal ==
  /\ LacksCredentials => sent = NoRequest /\ outcome # "sent"
  /\ (signArgs # NoArgs /\ NoDateHeader(signArgs.headers)) => signOut = [err |-> "KeyError"]

\* make_s3_request was called with such a profile, after sign_request_v4 had
\* been called without a date header
C23_Witness ==
  /\ LacksCredentials
  /\ outcome = "KeyError"
  /\ signArgs # NoArgs
  /\ NoDateHeader(signArgs.headers)


\* the header lines and the signed-headers string of the signed canonical request
SignedLines == SignedCanon[4]
SignedNames == [i \in 1..Len(SignedLines) |-> SignedLines[i][1]]

\* C28: in the canonical request header names are lowercased and names equal up
\* to case collapse to one entry: the header block has exactly one name:value
\* line per distinct lowercase name, the value being one given under that name,
\* in ascending name order, and the signed-headers string is the same names in
\* the same order joined by ';'.
C28_CanonicalHeaders ==
  Signed =>
    LET h == signArgs.headers IN
      /\ {SignedNames[i] : i \in 1..Len(SignedNames)} = {Lower(h[i][1]) : i \in 1..Len(h)}
      /\ \A i, j \in 1..Len(SignedNames) : i < j => StrLess(SignedNames[i], SignedNames[j])
      /\ \A i \in 1..Len(SignedLines) : \E j \in 1..Len(h) :
           Lower(h[j][1]) = SignedLines[i][1] /\ h[j][2] = SignedLines[i][2]
      /\ SignedCanon[5] = Join(SignedNames, <<";">>)
      /\ signOut.auth.SignedHeaders = SignedCanon[5]

\* headers were signed of which two had names equal up to case
C28_Witness ==
  /\ Signed
  /\ \E i, j \in 1..Len(signArgs.headers) :
       /\ signArgs.headers[i][1] # signArgs.headers[j][1]
       /\ Lower(signArgs.headers[i][1]) = Lower(signArgs.headers[j][1])
  /\ Len(SignedLines) < Len(signArgs.headers)


\* the path of the signed canonical request
SignedPath == SignedCanon[2]

\* the character with the code of the two hexadecimal digits h and l
HexValue(d) == (CHOOSE i \in 1..Len(HexDigits) : HexDigits[i] = d) - 1
Escaped(h, l) == CHOOSE c \in DOMAIN Ascii : Ascii[c] = 16 * HexValue(h) + HexValue(l)
IsHex(d) == \E i \in 1..Len(HexDigits) : HexDigits[i] = d

\* s holds unreserved characters, slashes and %XX escapes of other characters only
RECURSIVE WellEncoded(_)
WellEncoded(s) ==
  IF s = <<>> THEN TRUE
  ELSE IF s[1] = "%"
    THEN /\ Len(s) >= 3 /\ IsHex(s[2]) /\ IsHex(s[3])
         /\ 16 * HexValue(s[2]) + HexValue(s[3]) \in {Ascii[c] : c \in DOMAIN Ascii}
         /\ ~Unreserved(Escaped(s[2], s[3]))
         /\ WellEncoded(SubSeq(s, 4, Len(s)))
    ELSE (Unreserved(s[1]) \/ s[1] = "/") /\ WellEncoded(Tail(s))

\* a well-encoded s with every escape replaced by its character, once
RECURSIVE Unquote(_)
Unquote(s) ==
  IF s = <<>> THEN <<>>
  ELSE IF s[1] = "%" THEN <<Escaped(s[2], s[3])>> \o Unquote(SubSeq(s, 4, Len(s)))
  ELSE <<s[1]>> \o Unquote(Tail(s))

Slashes(s) == Cardinality({i \in 1..Len(s) : s[i] = "/"})

\* the endpoint the URL of a call with a bucket starts with
Endpoint ==
  LET e == EndpointOf(profile)
  IN  IF e[Len(e)] = "/" THEN SubSeq(e, 1, Len(e) - 1) ELSE e

\* C29: the path signed in the canonical request is the path of the URL that is
\* dispatched, and for a bucket and a key it is '/' + bucket + '/' + the key with
\* each '/'-separated segment percent-encoded once, the slashes between the
\* segments kept; a URL with an empty path is signed with path '/'.
C29_SignedPath ==
  /\ (Signed /\ UrlPath(signArgs.url) = <<>>) => SignedPath = <<"/">>
  /\ (sent # NoRequest /\ sent.call.bucket # <<>>) =>
       LET bucket == sent.call.bucket
           key == sent.call.key
           after == SubSeq(sent.url, Len(Endpoint) + Len(SignedPath) + 1, Len(sent.url))
           encoded == SubSeq(SignedPath, Len(bucket) + 3, Len(SignedPath))
       IN  /\ Len(Endpoint) + Len(SignedPath) <= Len(sent.url)
           /\ SubSeq(sent.url, 1, Len(Endpoint) + Len(SignedPath)) = Endpoint \o SignedPath
           /\ after = <<>> \/ after[1] = "?"
           /\ key = <<>> => SignedPath = <<"/">> \o bucket
           /\ key # <<>> =>
                /\ SubSeq(SignedPath, 1, Len(bucket) + 2) = <<"/">> \o bucket \o <<"/">>
                /\ WellEncoded(encoded)
                /\ Unquote(encoded) = key
                /\ Slashes(encoded) = Slashes(key)

\* a request for the key 1%? went out, signed with the path /bk/1%25%3F
C29_Witness ==
  /\ sent # NoRequest
  /\ sent.call.key = <<"1", "%", "?">>
  /\ SignedPath = <<"/", "b", "k", "/", "1", "%", "2", "5", "%", "3", "F">>


\* the value sent under the header name
SentHeader(name) == DictGet(sent.headers, name)

\* the date of the credential scope in the Authorization value sent
ScopeDate == Split(SentHeader(Authorization).Credential, "/")[2]

\* C30: for every request make_s3_request issues, in any sequence of calls the
\* commands make: x-amz-date, host, x-amz-content-sha256 and every header the
\* caller supplied are among the signed headers, Authorization is not, the
\* x-amz-content-sha256 value sent is the payload hash line of the canonical
\* request, and the date of the credential scope is the first 8 characters of
\* the x-amz-date value sent.
C30_SignedHeaderSet ==
  sent # NoRequest =>
    LET signed == {SignedNames[i] : i \in 1..Len(SignedNames)}
        supplied == sent.call.headers
    IN  /\ {XAmzDate, Host, XAmzContentSha256} \subseteq signed
        /\ \A i \in 1..Len(supplied) : Lower(supplied[i][1]) \in signed
        /\ Lower(Authorization) \notin signed
        /\ SignedCanon[5] = Join(SignedNames, <<";">>)
        /\ SentHeader(XAmzContentSha256) = SignedCanon[6]
        /\ Len(SentHeader(XAmzDate)) >= 8
        /\ ScopeDate = SubSeq(SentHeader(XAmzDate), 1, 8)
        /\ signOut.auth.Signature.msg[3] =
             Join(<<ScopeDate, signArgs.region, S3, Aws4Request>>, <<"/">>)

\* a request with a body and headers of the caller's went out on the day after
\* the process started
C30_Witness ==
  /\ sent # NoRequest
  /\ sent.call.headers # <<>>
  /\ sent.data # None
  /\ clock > 0
  /\ ScopeDate = <<"2", "0", "2", "6", "0", "1", "0", "2">>


\* ---------------------------------------------------------------- C31
\* C31: in upload_file and download_file an override takes precedence over the
\* size threshold: with force_single the single-shot path is taken for every
\* size, with only force_multipart / force_chunked the chunked path for every
\* size, force_single wins when both are set, and without a flag the size and
\* the chunk size decide; so the path is a function of size, chunk size and
\* flags.
C31_OverridePrecedence ==
  Decided =>
    /\ force_single => SingleShot
    /\ (force_chunked /\ ~force_single) => ~SingleShot
    /\ (~force_chunked /\ ~force_single) => (SingleShot <=> file_size <= chunk_size)

\* a file no larger than the chunk size went down the chunked path because the
\* force-multipart / force-chunked flag alone was set
C31_Witness ==
  /\ Decided /\ ~SingleShot
  /\ force_chunked /\ ~force_single
  /\ file_size <= chunk_size


\* ---------------------------------------------------------------- C32
UploadOps == {"put", "initiate", "part", "abort", "complete"}

\* C32: a missing local source file is reported before any network call: when
\* the local path is not an existing file, upload and parallel-upload end as
\* failed without a single HTTP request, so no multipart session is initiated
\* and nothing is stored.
C32_MissingSourceNoRequest ==
  srcFile = NotAFile =>
    /\ \A k \in 1..Len(requests) : requests[k].op \notin UploadOps
    /\ upload_id = 0
    /\ object = NoFile
    /\ cmd \in {"upload_file", "parallel_upload"} =>
         requests = <<>> /\ pc = "done" /\ result = "failed"

\* parallel-upload was run on a path that names no file
C32_Witness == srcFile = NotAFile /\ cmd = "parallel_upload" /\ pc = "done"


\* ---------------------------------------------------------------- C33
\* the run is a download whose HEAD probe did not return 200
ProbeFailed ==
  /\ cmd \in DownloadCmds
  /\ requests # <<>>
  /\ requests[1].op = "head"
  /\ requests[1].status # "200"

\* C33: every download (download and parallel-download) issues the HEAD size
\* probe first; if the probe does not return status 200 no GET is issued and
\* the destination file is neither created, truncated nor modified.
C33_ProbeFirst ==
  /\ [](cmd \in DownloadCmds =>
          /\ requests # <<>>
          /\ requests[1].op = "head"
          /\ ReqsOf("head") = {1})
  /\ [](ProbeFailed =>
          /\ Len(requests) = 1
          /\ RunEnded
          /\ destFile \in DestPaths)
  /\ [][ProbeFailed' => destFile' = destFile]_vars

\* the probe of a parallel-download failed with an old file at the destination
C33_Witness ==
  /\ ProbeFailed
  /\ cmd = "parallel_download"
  /\ requests[1].status = "500"
  /\ destFile = OldFile


\* ---------------------------------------------------------------- C34
\* what the read loop of upload_file_multipart sends for a file, computed on
\* its own: part n is the next c bytes of what is left, until nothing is left
RECURSIVE SequentialParts(_, _, _)
SequentialParts(rest, c, n) ==
  IF rest = <<>> THEN <<>>
  ELSE <<[n |-> n, data |-> SubSeq(rest, 1, Min(c, Len(rest)))]>>
         \o SequentialParts(SubSeq(rest, Min(c, Len(rest)) + 1, Len(rest)), c, n + 1)

\* the part PUTs of the run, as (part number, bytes) pairs
PartPuts == {<<requests[k].n, requests[k].data>> : k \in ReqsOf("part")}

\* C34: a multipart upload that succeeds, sequential or parallel (any worker
\* count, any completion order), has sent exactly the part PUTs (numbers and
\* bytes) that the sequential read loop produces for that file and chunk size,
\* each once, and one completion document listing those parts in that order
\* with the ETag of each: both functions send the same parts and document.
C34_ParallelMatchesSequential ==
  (MultipartRun /\ result = "success") =>
     LET plan == SequentialParts(srcFile, chunk_size, 1) IN
     /\ PartPuts = {<<plan[i].n, plan[i].data>> : i \in 1..Len(plan)}
     /\ CountOp("part") = Len(plan)
     /\ \A k \in ReqsOf("part") : requests[k].status = "200"
     /\ CountOp("complete") = 1
     /\ \A k \in ReqsOf("complete") :
           requests[k].doc =
             [i \in 1..Len(plan) |->
                [PartNumber |-> plan[i].n, ETag |-> ETagOf(plan[i].n, plan[i].data)]]

\* a parallel upload of two parts, the last one shorter, by two workers,
\* succeeded although the second part's result was collected first
C34_Witness ==
  /\ cmd = "upload_file_parallel" /\ result = "success"
  /\ max_workers = 2
  /\ chunk_count = 2 /\ file_size < 2 * chunk_size
  /\ collected = <<2, 1>>


\* ---------------------------------------------------------------- C35
InRangeLoop == cmd = "download_file_chunked" /\ pc = "ranges"

\* C35: the sequential ranged download terminates for every object size
\* S >= 0 and chunk size C >= 1: every iteration that goes on to the next one
\* has strictly increased the start offset, which never passes S; a run in the
\* loop eventually ends; and a run that reports success has issued exactly
\* ceil(S/C) range GETs.
C35_ChunkedTerminates ==
  /\ [][(InRangeLoop /\ InRangeLoop' /\ requests' # requests)
          => (start_byte' > start_byte /\ start_byte' <= file_size)]_vars
  /\ [](cmd = "download_file_chunked" =>
          /\ chunk_size >= 1 /\ file_size >= 0
          /\ 0 <= start_byte /\ start_byte <= file_size
          /\ result = "success" =>
               /\ Cardinality(ReqsOf("get")) = CeilDiv(file_size, chunk_size)
               /\ \A k \in ReqsOf("get") : requests[k].status \in {"200", "206"})
  /\ (InRangeLoop ~> (cmd = "download_file_chunked" /\ RunEnded))

\* a ranged download of three bytes in chunks of two reported success after
\* two GETs
C35_Witness ==
  /\ cmd = "download_file_chunked" /\ result = "success"
  /\ file_size = 3 /\ chunk_size = 2
  /\ Cardinality(ReqsOf("get")) = 2


\* ---------------------------------------------------------------- C36
Source == SourceOf(moveArgs)
Dest == DestOf(moveArgs)
CopyFailed == cmd = "move_file" /\ requests[1].status # "200"

Limited == searchArgs.max_results # <<>> /\ searchArgs.max_results[1] > 0

====
